---- MODULE Spec2Model ----
(***************************************************************************)
(* State-machine model of the system-monitor collector                     *)
(* (system-monitor/src): the SQLite store and its daily summary            *)
(* (database.py), the threshold evaluator, the POST /metrics handler, the  *)
(* daily-report job and the weekly package report (server.py), the ntfy     *)
(* notifier (notifier.py), and the push loop of the client (client.py).    *)
(*                                                                         *)
(* Time is an integer number of ticks; DayTicks ticks make one UTC day.    *)
(* Percentages, temperatures and loads are integers.  Every Database       *)
(* method opens its own connection: a write needs SQLite's database write  *)
(* lock; a reader sees committed rows only.  The statements of             *)
(* store_metrics are separate steps, so that the transaction is judged     *)
(* against every other connection to the database file; a coroutine of     *)
(* the server is suspended only at an await.                               *)
(***************************************************************************)
EXTENDS Integers, Sequences, FiniteSets, TLC

\* ---------------------------------------------------------------- bounds
MaxTime == 3        \* the clock runs over ticks 0..MaxTime
DayTicks == 2       \* ticks per UTC calendar day
MaxRequests == 2    \* snapshots handed over at most (SpecIngest, SpecStore)
MaxIngests == 1     \* POST /metrics requests received at most (Spec)
MaxSent == 2        \* delivered daily reports counted per date at most
MaxSkew == 1        \* a client's collected_at ranges over 0..MaxSkew (SpecIngest)
MaxAlerts == 2      \* rows of table alerts at most (SpecStore)
MaxSamples == 3     \* snapshots stored at most (SpecSummary)
WeekTicks == 2      \* ticks per calendar week (SpecWeekly)
MaxWeeklyCalls == 2 \* notifier calls of the weekly job counted at most

None == "none"

ClientIds == {"a", "b"}
Times == 0..MaxTime
Dates == 0..(MaxTime \div DayTicks)
Reqs == {"q1", "q2"}          \* POST /metrics requests in flight
Runs == {"timer", "manual"}   \* send_daily_report: scheduler job, manual trigger

\* ------------------------------------------------- configuration defaults
cpu_percent_threshold == 90
ram_percent_threshold == 90
disk_percent_threshold == 85
temperature_celsius_threshold == 80
load_avg_multiplier == 2
retention_days == 1
daily_report_tick == 1        \* tick of the day at which the cron trigger fires
weekly_report_tick == 1       \* tick of the week at which the cron trigger fires

AlertThresholds ==
    [cpu_percent |-> cpu_percent_threshold,
     ram_percent |-> ram_percent_threshold,
     disk_percent |-> disk_percent_threshold,
     temperature_celsius |-> temperature_celsius_threshold,
     load_avg_multiplier |-> load_avg_multiplier]

\* ------------------------------------------------------------ snapshots
\* SystemMetrics, restricted to the fields the store, the evaluator and the
\* summary read.
\* An Optional value is a sequence: <<>> when absent, <<v>> when present.
HostOf(c) == IF c = "a" THEN "host-a" ELSE "host-b"

Quiet ==
    [cpu_percent |-> 10, cpu_count |-> 2, ram_percent |-> 40,
     disk_partitions |-> <<[mountpoint |-> "/", percent_used |-> 50]>>,
     cpu_temperature |-> [max_temp_celsius |-> <<45>>, available |-> TRUE],
     network_io |-> [bytes_sent |-> 0, bytes_recv |-> 0],
     load_avg_1 |-> 1, load_avg_5 |-> 1, load_avg_15 |-> 1]

Hot ==
    [cpu_percent |-> 95, cpu_count |-> 2, ram_percent |-> 40,
     disk_partitions |-> <<[mountpoint |-> "/", percent_used |-> 90]>>,
     cpu_temperature |-> [max_temp_celsius |-> <<>>, available |-> FALSE],
     network_io |-> [bytes_sent |-> 0, bytes_recv |-> 0],
     load_avg_1 |-> 1, load_avg_5 |-> 1, load_avg_15 |-> 1]

Profiles == {Quiet, Hot}

SystemMetrics(c, t, p) ==
    [client_id |-> c, hostname |-> HostOf(c), collected_at |-> t,
     cpu_percent |-> p.cpu_percent, cpu_count |-> p.cpu_count,
     ram_percent |-> p.ram_percent, disk_partitions |-> p.disk_partitions,
     cpu_temperature |-> p.cpu_temperature, network_io |-> p.network_io,
     load_avg_1 |-> p.load_avg_1, load_avg_5 |-> p.load_avg_5,
     load_avg_15 |-> p.load_avg_15]

\* snapshots with any collected_at: the client's clock is not the server's
SnapshotInputs ==
    {SystemMetrics(c, t, p) : c \in ClientIds, t \in 0..MaxSkew, p \in Profiles}

\* snapshots under every threshold, of clients whose clock agrees with the
\* server's
QuietSnapshotsAt(t) ==
    {SystemMetrics(c, t, Quiet) : c \in ClientIds}

\* ------------------------------------------------------ pure operators
SeqToSet(s) == {s[i] : i \in 1..Len(s)}

RECURSIVE SelectSeqBy_Reversed(_, _)
\* variant: the disk loop collects the alerts last partition first
SelectSeqBy_Reversed(parts, limit) ==
    IF parts = <<>> THEN <<>>
    ELSE SelectSeqBy_Reversed(Tail(parts), limit)
         \o (IF Head(parts).percent_used > limit THEN <<Head(parts)>> ELSE <<>>)

RECURSIVE SelectSeqBy(_, _)
\* the disk loop of check_thresholds: one alert per partition over the threshold
SelectSeqBy(parts, limit) ==
    IF parts = <<>> THEN <<>>
    ELSE (IF Head(parts).percent_used > limit THEN <<Head(parts)>> ELSE <<>>)
         \o SelectSeqBy(Tail(parts), limit)

\* f"disk_{partition.mountpoint}"
DiskMetricName(mountpoint) ==
    IF mountpoint = "/" THEN "disk_/" ELSE "disk_/data"

Alert(m, name, value, limit, t) ==
    [client_id |-> m.client_id, hostname |-> m.hostname, metric_name |-> name,
     current_value |-> value, threshold_value |-> limit, recorded_at |-> t]

\* variant: the cpu comparison is >=
check_thresholds_CpuInclusive(m, th, t) ==
    LET cpu == IF m.cpu_percent >= th.cpu_percent
               THEN <<Alert(m, "cpu_percent", m.cpu_percent, th.cpu_percent, t)>>
               ELSE <<>>
        ram == IF m.ram_percent > th.ram_percent
               THEN <<Alert(m, "ram_percent", m.ram_percent, th.ram_percent, t)>>
               ELSE <<>>
        over == SelectSeqBy(m.disk_partitions, th.disk_percent)
        disk == [i \in 1..Len(over) |->
                    Alert(m, DiskMetricName(over[i].mountpoint),
                          over[i].percent_used, th.disk_percent, t)]
        temp == m.cpu_temperature
        \* "available and max_temp_celsius": an absent value and 0 are both falsy
        tmp == IF temp.available /\ temp.max_temp_celsius # <<>>
                  /\ temp.max_temp_celsius[1] # 0
                  /\ temp.max_temp_celsius[1] > th.temperature_celsius
               THEN <<Alert(m, "cpu_temperature", temp.max_temp_celsius[1],
                            th.temperature_celsius, t)>>
               ELSE <<>>
        load_threshold == th.load_avg_multiplier * m.cpu_count
        load == IF m.load_avg_1 > load_threshold
                THEN <<Alert(m, "load_avg", m.load_avg_1, load_threshold, t)>>
                ELSE <<>>
    IN cpu \o ram \o disk \o tmp \o load

\* variant: the load check comes first
check_thresholds_LoadFirst(m, th, t) ==
    LET cpu == IF m.cpu_percent > th.cpu_percent
               THEN <<Alert(m, "cpu_percent", m.cpu_percent, th.cpu_percent, t)>>
               ELSE <<>>
        ram == IF m.ram_percent > th.ram_percent
               THEN <<Alert(m, "ram_percent", m.ram_percent, th.ram_percent, t)>>
               ELSE <<>>
        over == SelectSeqBy(m.disk_partitions, th.disk_percent)
        disk == [i \in 1..Len(over) |->
                    Alert(m, DiskMetricName(over[i].mountpoint),
                          over[i].percent_used, th.disk_percent, t)]
        temp == m.cpu_temperature
        \* "available and max_temp_celsius": an absent value and 0 are both falsy
        tmp == IF temp.available /\ temp.max_temp_celsius # <<>>
                  /\ temp.max_temp_celsius[1] # 0
                  /\ temp.max_temp_celsius[1] > th.temperature_celsius
               THEN <<Alert(m, "cpu_temperature", temp.max_temp_celsius[1],
                            th.temperature_celsius, t)>>
               ELSE <<>>
        load_threshold == th.load_avg_multiplier * m.cpu_count
        load == IF m.load_avg_1 > load_threshold
                THEN <<Alert(m, "load_avg", m.load_avg_1, load_threshold, t)>>
                ELSE <<>>
    IN load \o cpu \o ram \o disk \o tmp

\* variant: the load check takes the largest of the three load averages
check_thresholds_AnyLoad(m, th, t) ==
    LET cpu == IF m.cpu_percent > th.cpu_percent
               THEN <<Alert(m, "cpu_percent", m.cpu_percent, th.cpu_percent, t)>>
               ELSE <<>>
        ram == IF m.ram_percent > th.ram_percent
               THEN <<Alert(m, "ram_percent", m.ram_percent, th.ram_percent, t)>>
               ELSE <<>>
        over == SelectSeqBy(m.disk_partitions, th.disk_percent)
        disk == [i \in 1..Len(over) |->
                    Alert(m, DiskMetricName(over[i].mountpoint),
                          over[i].percent_used, th.disk_percent, t)]
        temp == m.cpu_temperature
        \* "available and max_temp_celsius": an absent value and 0 are both falsy
        tmp == IF temp.available /\ temp.max_temp_celsius # <<>>
                  /\ temp.max_temp_celsius[1] # 0
                  /\ temp.max_temp_celsius[1] > th.temperature_celsius
               THEN <<Alert(m, "cpu_temperature", temp.max_temp_celsius[1],
                            th.temperature_celsius, t)>>
               ELSE <<>>
        load_threshold == th.load_avg_multiplier * m.cpu_count
        worst == IF m.load_avg_5 > m.load_avg_1 THEN m.load_avg_5 ELSE m.load_avg_1
        load == IF worst > load_threshold
                THEN <<Alert(m, "load_avg", worst, load_threshold, t)>>
                ELSE <<>>
    IN cpu \o ram \o disk \o tmp \o load

\* server.check_thresholds: cpu, ram, each disk partition, temperature, load
check_thresholds(m, th, t) ==
    LET cpu == IF m.cpu_percent > th.cpu_percent
               THEN <<Alert(m, "cpu_percent", m.cpu_percent, th.cpu_percent, t)>>
               ELSE <<>>
        ram == IF m.ram_percent > th.ram_percent
               THEN <<Alert(m, "ram_percent", m.ram_percent, th.ram_percent, t)>>
               ELSE <<>>
        over == SelectSeqBy(m.disk_partitions, th.disk_percent)
        disk == [i \in 1..Len(over) |->
                    Alert(m, DiskMetricName(over[i].mountpoint),
                          over[i].percent_used, th.disk_percent, t)]
        temp == m.cpu_temperature
        \* "available and max_temp_celsius": an absent value and 0 are both falsy
        tmp == IF temp.available /\ temp.max_temp_celsius # <<>>
                  /\ temp.max_temp_celsius[1] # 0
                  /\ temp.max_temp_celsius[1] > th.temperature_celsius
               THEN <<Alert(m, "cpu_temperature", temp.max_temp_celsius[1],
                            th.temperature_celsius, t)>>
               ELSE <<>>
        load_threshold == th.load_avg_multiplier * m.cpu_count
        load == IF m.load_avg_1 > load_threshold
                THEN <<Alert(m, "load_avg", m.load_avg_1, load_threshold, t)>>
                ELSE <<>>
    IN cpu \o ram \o disk \o tmp \o load


\* ------------------------------------------------------------- notifier
\* What the ntfy server can do with one POST (notifier.py 63-86).
HttpOutcomes == {"status_200", "status_500", "connect_error", "timeout"}

\* variant: a disabled notifier reports the notification as not sent
send_notification_DisabledFails(enabled, outcome) ==
    enabled /\ outcome = "status_200"

\* Notifier.send_notification: TRUE without any call when disabled, else TRUE
\* exactly on a 200 response; every error is caught and becomes FALSE.
send_notification(enabled, outcome) ==
    IF ~enabled THEN TRUE ELSE outcome = "status_200"

\* an outbound call was made and the server accepted it
Delivered(enabled, outcome) == enabled /\ outcome = "status_200"

\* ---------------------------------------------------------------- store
\* INSERT INTO metrics (database.py 128-168)
InsertMetrics(rows, m) == Append(rows, m)

\* variant: a plain INSERT INTO clients, without the ON CONFLICT clause
UpsertClient_InsertOnly(cl, m) ==
    cl \cup {[client_id |-> m.client_id, hostname |-> m.hostname,
              first_seen |-> m.collected_at, last_seen |-> m.collected_at,
              metrics_count |-> 1]}

\* INSERT INTO clients ... ON CONFLICT(client_id) DO UPDATE (database.py 171-183)
UpsertClient(cl, m) ==
    IF \E row \in cl : row.client_id = m.client_id
    THEN {IF row.client_id = m.client_id
          THEN [row EXCEPT !.hostname = m.hostname,
                           !.last_seen = m.collected_at,
                           !.metrics_count = row.metrics_count + 1]
          ELSE row : row \in cl}
    ELSE cl \cup {[client_id |-> m.client_id, hostname |-> m.hostname,
                   first_seen |-> m.collected_at, last_seen |-> m.collected_at,
                   metrics_count |-> 1]}

\* INSERT INTO alerts: the notified column takes its default 0 (database.py 97, 191-204)
AlertRow(a) ==
    [client_id |-> a.client_id, hostname |-> a.hostname,
     metric_name |-> a.metric_name, current_value |-> a.current_value,
     threshold_value |-> a.threshold_value, recorded_at |-> a.recorded_at,
     notified |-> 0]

\* datetime.replace(hour=0, minute=0, second=0, microsecond=0)
Midnight(t) == (t \div DayTicks) * DayTicks

\* strftime("%Y-%m-%d"): the calendar day, as the number of the day
StrfDate(t) == t \div DayTicks

\* variant: the lookup compares the stored day with the datetime itself
was_daily_report_sent_ByDatetime(reports, report_date) ==
    \E i \in 1..Len(reports) : reports[i].report_date = report_date

\* Database.was_daily_report_sent (database.py 380-386)
was_daily_report_sent(reports, report_date) ==
    \E i \in 1..Len(reports) : reports[i].report_date = StrfDate(report_date)

\* ------------------------------------------------------ the daily summary
\* A number the summary rounds to one decimal is counted in tenths, one it
\* rounds to two decimals in hundredths.
GiB == 400          \* units of a byte counter per 1024**3 bytes

\* round(a / b, ndigits) in units of the last digit kept, for b > 0: the
\* nearest integer to a / b, a tie going to the even one
RoundHalfEven(a, b) ==
    LET q == a \div b
        r == a % b
    IN IF 2 * r < b THEN q
       ELSE IF 2 * r > b THEN q + 1
       ELSE IF q % 2 = 0 THEN q ELSE q + 1

RECURSIVE Sum(_)
Sum(values) == IF values = <<>> THEN 0 ELSE Head(values) + Sum(Tail(values))

Max(values) ==
    CHOOSE v \in SeqToSet(values) : \A w \in SeqToSet(values) : w <= v

\* variant: of the rows with the largest key, the last one
FirstMax_Last(rows, keys) ==
    rows[CHOOSE i \in 1..Len(rows) :
            /\ keys[i] = Max(keys)
            /\ \A j \in (i + 1)..Len(rows) : keys[j] < Max(keys)]

\* max(rows, key=...): of the rows with the largest key, the first one
\* (database.py 282-283, 310-313)
FirstMax(rows, keys) ==
    rows[CHOOSE i \in 1..Len(rows) :
            /\ keys[i] = Max(keys)
            /\ \A j \in 1..(i - 1) : keys[j] < Max(keys)]

RECURSIVE InsertByCollectedAt(_, _)
\* ORDER BY collected_at ASC, rows of equal collected_at in id order
InsertByCollectedAt(sorted, r) ==
    IF sorted = <<>> THEN <<r>>
    ELSE IF Head(sorted).collected_at <= r.collected_at
         THEN <<Head(sorted)>> \o InsertByCollectedAt(Tail(sorted), r)
         ELSE <<r>> \o sorted

RECURSIVE OrderByCollectedAt(_)
OrderByCollectedAt(rows) ==
    IF rows = <<>> THEN <<>>
    ELSE InsertByCollectedAt(OrderByCollectedAt(SubSeq(rows, 1, Len(rows) - 1)),
                             rows[Len(rows)])

\* variant: ... AND collected_at <= end
Window_InclusiveEnd(rows, client_id, start, end) ==
    OrderByCollectedAt(SelectSeq(rows, LAMBDA r : r.client_id = client_id
                                                  /\ r.collected_at >= start
                                                  /\ r.collected_at <= end))

\* SELECT * FROM metrics WHERE client_id = ? AND collected_at >= start AND
\* collected_at < end ORDER BY collected_at ASC (database.py 266-270)
Window(rows, client_id, start, end) ==
    OrderByCollectedAt(SelectSeq(rows, LAMBDA r : r.client_id = client_id
                                                  /\ r.collected_at >= start
                                                  /\ r.collected_at < end))

RECURSIVE AllPartitions(_)
\* the partitions of the rows, row by row (database.py 288-290)
AllPartitions(rows) ==
    IF rows = <<>> THEN <<>>
    ELSE Head(rows).disk_partitions \o AllPartitions(Tail(rows))

RECURSIVE WorstPartition(_, _)
\* the disk loop: a partition replaces the worst so far when its percent_used
\* is strictly greater (database.py 291-293)
WorstPartition(parts, worst) ==
    IF parts = <<>> THEN worst
    ELSE WorstPartition(Tail(parts),
                        IF Head(parts).percent_used > worst.percent_used
                        THEN Head(parts) ELSE worst)

\* variant: the difference is reported as it is, negative or not
NetworkGb_Unclamped(first, last) ==
    RoundHalfEven(100 * (last - first), GiB)

\* round(max(0, (last - first) / 1024**3), 2) (database.py 298-299, 335-336)
NetworkGb(first, last) ==
    LET delta == last - first
    IN RoundHalfEven(100 * (IF delta > 0 THEN delta ELSE 0), GiB)

\* Database.get_daily_summary: absent (<<>>) when the client has no row or no
\* snapshot in [start, start + 1 day), else the DailySummary without
\* uptime_hours and alerts_count (database.py 248-343)
get_daily_summary(rows, cl, client_id, date) ==
    LET start == Midnight(date)
        end == start + DayTicks
        window == Window(rows, client_id, start, end)
        n == Len(window)
        cpu_values == [i \in 1..n |-> window[i].cpu_percent]
        ram_values == [i \in 1..n |-> window[i].ram_percent]
        load_values == [i \in 1..n |-> window[i].load_avg_1]
        \* "cpu_temp_max is not None"; the column cpu_temp_available is not read
        temp_rows == SelectSeq(window, LAMBDA r :
                         r.cpu_temperature.max_temp_celsius # <<>>)
        temp_values == [i \in 1..Len(temp_rows) |->
                           temp_rows[i].cpu_temperature.max_temp_celsius[1]]
        worst == WorstPartition(AllPartitions(window),
                                [mountpoint |-> "N/A", percent_used |-> 0])
    IN IF ~(\E row \in cl : row.client_id = client_id) \/ window = <<>>
       THEN <<>>
       ELSE <<[client_id |-> client_id,
               hostname |-> (CHOOSE row \in cl : row.client_id = client_id).hostname,
               date |-> StrfDate(start),
               samples |-> n,
               cpu_avg |-> RoundHalfEven(10 * Sum(cpu_values), n),
               cpu_max |-> 10 * Max(cpu_values),
               cpu_max_time |-> FirstMax(window, cpu_values).collected_at,
               ram_avg_percent |-> RoundHalfEven(10 * Sum(ram_values), n),
               ram_max_percent |-> 10 * Max(ram_values),
               ram_max_time |-> FirstMax(window, ram_values).collected_at,
               temp_avg |-> IF temp_values = <<>> THEN <<>>
                            ELSE <<RoundHalfEven(10 * Sum(temp_values),
                                                 Len(temp_values))>>,
               temp_max |-> IF temp_values = <<>> THEN <<>>
                            ELSE <<10 * Max(temp_values)>>,
               temp_max_time |-> IF temp_values = <<>> THEN <<>>
                                 ELSE <<FirstMax(temp_rows, temp_values).collected_at>>,
               disk_max_percent |-> 10 * worst.percent_used,
               disk_max_partition |-> worst.mountpoint,
               network_sent_gb |->
                   NetworkGb(window[1].network_io.bytes_sent,
                             window[n].network_io.bytes_sent),
               network_recv_gb |->
                   NetworkGb(window[1].network_io.bytes_recv,
                             window[n].network_io.bytes_recv),
               load_avg_max |-> 100 * Max(load_values)]>>

\* variant: DELETE ... WHERE column <= cutoff
KeepFrom_Inclusive(rows, cutoff, IsMetric) ==
    SelectSeq(rows, LAMBDA r :
        ~((IF IsMetric THEN r.collected_at ELSE r.recorded_at) <= cutoff))

\* the rows DELETE ... WHERE column < cutoff leaves (database.py 350-359)
KeepFrom(rows, cutoff, IsMetric) ==
    SelectSeq(rows, LAMBDA r :
        ~((IF IsMetric THEN r.collected_at ELSE r.recorded_at) < cutoff))

\* ---------------------------------------------------------------- state
VARIABLES
    now,            \* datetime.utcnow(), in ticks
    config,         \* the Config values the handlers read
    metrics,        \* table metrics: committed rows in id order
    clients,        \* table clients: committed rows
    alerts,         \* table alerts: committed rows in id order
    daily_reports,  \* table daily_reports: committed rows in id order
    dbLock,         \* holder of SQLite's write lock, or None
    req,            \* receive_metrics: one record per request in flight
    run,            \* send_daily_report: one record per run
    received,       \* POST /metrics requests received so far
    ingested,       \* per client, store_metrics calls that returned
    reportsSent,    \* per date, daily reports the ntfy server accepted
    weekly,         \* send_weekly_package_report: its switch, data, markers, runs
    client          \* the MetricsClient of one monitored host and its run()

vars == <<now, config, metrics, clients, alerts, daily_reports, dbLock, req, run,
          received, ingested, reportsSent, weekly, client>>

Configs ==
    [ntfy_enabled : BOOLEAN, send_immediate_alerts : BOOLEAN]

NoTx == [rows |-> <<>>, del |-> {}, add |-> {}]

\* m: the snapshot; alerts, i: the alert loop; tx: the open transaction;
\* status: the response; stored: the snapshot was committed; saved: alert rows
\* committed; sends: the results of the notifier calls; failed_at: where a
\* store write raised
IdleReq ==
    [pc |-> "idle", m |-> <<>>, alerts |-> <<>>, i |-> 0, tx |-> NoTx,
     status |-> None, stored |-> FALSE, saved |-> 0, sends |-> <<>>,
     failed_at |-> None]

IdleRun == [pc |-> "idle", yesterday |-> 0, n |-> 0, last |-> None]

IdleWeeklyRun == [pc |-> "idle", week |-> 0, n |-> 0, last |-> None]

\* enabled: notifications.weekly_packages_enabled; packages: the clients with
\* stored package updates; reports: the weeks with a marker; calls: notifier
\* calls the weekly job made; run: one record per run
NoWeekly(enabled) ==
    [enabled |-> enabled, packages |-> {}, reports |-> {}, calls |-> 0,
     run |-> [r \in Runs |-> IdleWeeklyRun]]

\* MetricsClient.__init__: not running, no http client, no package check yet
\* (client.py 24-31). pc: where run() is; last_check: the age of
\* _last_package_check in ticks; pushes: send_metrics calls started;
\* stopped: stop() was called while the main loop ran; late: the calls that
\* started after that
NewClient ==
    [pc |-> "new", running |-> FALSE, http |-> FALSE, last_check |-> <<>>,
     pushes |-> 0, stopped |-> FALSE, late |-> {}]

DefaultConfig == [ntfy_enabled |-> TRUE, send_immediate_alerts |-> TRUE]

InitWith(cfgs, enabled) ==
    /\ now = 0
    /\ config \in cfgs
    /\ metrics = <<>>
    /\ clients = {}
    /\ alerts = <<>>
    /\ daily_reports = <<>>
    /\ dbLock = None
    /\ req = [q \in Reqs |-> IdleReq]
    /\ run = [r \in Runs |-> IdleRun]
    /\ received = 0
    /\ ingested = [c \in ClientIds |-> 0]
    /\ reportsSent = [d \in Dates |-> 0]
    /\ weekly \in {NoWeekly(e) : e \in enabled}
    /\ client = NewClient

\* the weekly report is on by default (config.py 46)
Init == InitWith({DefaultConfig}, {TRUE})

\* immediate alerts on and off, the notifier enabled
IngestConfigs == {c \in Configs : c.ntfy_enabled}

InitIngest == InitWith(IngestConfigs, {TRUE})

\* variant: writers do not exclude each other
CanWrite_NoLock(p) == TRUE

\* a connection can take the write lock: nobody else holds it
CanWrite(p) == dbLock \in {None, p}

InStoreMetrics(q) == req[q].pc \in {"insert_metrics", "upsert_client", "commit"}

\* ------------------------------------------------- POST /metrics handler
\* receive_metrics is entered with a validated snapshot (server.py 371-378)
ReceiveMetrics(q, m, limit) ==
    /\ req[q].pc \in {"idle", "responded"}
    /\ received < limit
    /\ received' = received + 1
    /\ UNCHANGED ingested
    /\ req' = [req EXCEPT ![q] = [IdleReq EXCEPT !.pc = "insert_metrics", !.m = <<m>>]]
    /\ UNCHANGED <<client, weekly, now, config, metrics, clients, alerts, daily_reports, dbLock,
                   run, reportsSent>>

\* variant: the INSERT is committed on its own, before the client upsert
StoreMetricsInsert_Autocommit(q) ==
    /\ req[q].pc = "insert_metrics"
    /\ CanWrite(q)
    /\ dbLock' = q
    /\ metrics' = InsertMetrics(metrics, req[q].m[1])
    /\ req' = [req EXCEPT ![q].pc = "upsert_client"]
    /\ UNCHANGED <<client, weekly, received, ingested, now, config, clients, alerts, daily_reports, run,
                   reportsSent>>

\* store_metrics, first statement: the INSERT opens the transaction and takes
\* the write lock (database.py 127-168)
StoreMetricsInsert(q) ==
    /\ req[q].pc = "insert_metrics"
    /\ CanWrite(q)
    /\ dbLock' = q
    /\ req' = [req EXCEPT ![q].pc = "upsert_client",
                          ![q].tx.rows = InsertMetrics(<<>>, req[q].m[1])]
    /\ UNCHANGED <<client, weekly, received, ingested, now, config, metrics, clients, alerts, daily_reports, run,
                   reportsSent>>

\* store_metrics, second statement: the client upsert, in the same
\* transaction (database.py 171-183)
StoreMetricsUpsert(q) ==
    /\ req[q].pc = "upsert_client"
    /\ LET new == UpsertClient(clients, req[q].m[1])
       IN req' = [req EXCEPT ![q].pc = "commit",
                             ![q].tx.del = clients \ new,
                             ![q].tx.add = new \ clients]
    /\ UNCHANGED <<client, weekly, received, ingested, now, config, metrics, clients, alerts, daily_reports, dbLock,
                   run, reportsSent>>

\* store_metrics: conn.commit() publishes both writes and frees the lock
\* (database.py 185-186)
StoreMetricsCommit(q) ==
    /\ req[q].pc = "commit"
    /\ metrics' = metrics \o req[q].tx.rows
    /\ clients' = (clients \ req[q].tx.del) \cup req[q].tx.add
    /\ dbLock' = IF dbLock = q THEN None ELSE dbLock
    /\ req' = [req EXCEPT ![q].pc = "check_thresholds", ![q].tx = NoTx,
                          ![q].stored = TRUE]
    /\ ingested' = [ingested EXCEPT ![req[q].m[1].client_id] = @ + 1]
    /\ UNCHANGED <<client, weekly, received, now, config, alerts, daily_reports, run, reportsSent>>

\* variant: the error of store_metrics is caught and the handler goes on
StoreMetricsFail_Swallowed(q) ==
    /\ InStoreMetrics(q)
    /\ dbLock' = IF dbLock = q THEN None ELSE dbLock
    /\ req' = [req EXCEPT ![q].pc = "check_thresholds", ![q].tx = NoTx,
                          ![q].failed_at = req[q].pc]
    /\ UNCHANGED <<client, weekly, received, ingested, now, config, metrics, clients, alerts, daily_reports, run,
                   reportsSent>>

\* store_metrics raises (disk full, database is locked): the connection's
\* context manager rolls the transaction back, the exception leaves
\* receive_metrics and the request ends as a server error (database.py 127)
StoreMetricsFail(q) ==
    /\ InStoreMetrics(q)
    /\ dbLock' = IF dbLock = q THEN None ELSE dbLock
    /\ req' = [req EXCEPT ![q].pc = "responded", ![q].tx = NoTx,
                          ![q].status = "error", ![q].m = <<>>,
                          ![q].failed_at = req[q].pc]
    /\ UNCHANGED <<client, weekly, received, ingested, now, config, metrics, clients, alerts, daily_reports, run,
                   reportsSent>>

\* the response of receive_metrics (server.py 395-401)
Respond(r) == [r EXCEPT !.pc = "responded", !.status = "ok", !.m = <<>>]

\* alerts = check_thresholds(metrics, thresholds) (server.py 380-391)
CheckThresholds(q) ==
    /\ req[q].pc = "check_thresholds"
    /\ LET found == check_thresholds(req[q].m[1], AlertThresholds, now)
       IN req' = [req EXCEPT ![q] =
                    IF found = <<>> THEN Respond(req[q])
                    ELSE [req[q] EXCEPT !.pc = "store_alert", !.alerts = found,
                                        !.i = 1]]
    /\ UNCHANGED <<client, weekly, received, ingested, now, config, metrics, clients, alerts, daily_reports, dbLock,
                   run, reportsSent>>

\* db.store_alert(alert) commits one row (server.py 392, database.py 188-206)
StoreAlert(q) ==
    /\ req[q].pc = "store_alert"
    /\ CanWrite(q)
    /\ alerts' = Append(alerts, AlertRow(req[q].alerts[req[q].i]))
    /\ req' = [req EXCEPT ![q].pc = "send_alert", ![q].saved = @ + 1]
    /\ UNCHANGED <<client, weekly, received, ingested, now, config, metrics, clients, daily_reports, dbLock, run,
                   reportsSent>>

\* db.store_alert raises: the exception leaves receive_metrics (server.py 392)
StoreAlertFail(q) ==
    /\ req[q].pc = "store_alert"
    /\ req' = [req EXCEPT ![q].pc = "responded", ![q].status = "error",
                          ![q].m = <<>>, ![q].failed_at = req[q].pc]
    /\ UNCHANGED <<client, weekly, received, ingested, now, config, metrics, clients, alerts, daily_reports, dbLock,
                   run, reportsSent>>

\* variant: a failed notification ends the request with an error
AfterSend_AbortOnFailure(r, sent) ==
    LET s == [r EXCEPT !.sends = Append(r.sends, sent)]
    IN IF sent = "failed"
       THEN [s EXCEPT !.pc = "responded", !.status = "error", !.m = <<>>]
       ELSE IF r.i < Len(r.alerts)
       THEN [s EXCEPT !.pc = "store_alert", !.i = r.i + 1]
       ELSE Respond(s)

\* variant: after a dispatch the loop passes over the next alert
AfterSend_SkipsAlert(r, sent) ==
    LET s == [r EXCEPT !.sends = Append(r.sends, sent)]
    IN IF r.i + 1 < Len(r.alerts)
       THEN [s EXCEPT !.pc = "store_alert", !.i = r.i + 2]
       ELSE Respond(s)

\* variant: the loop stays on an alert until its notification is delivered
AfterSend_WaitsForDelivery(r, sent) ==
    IF sent = "failed" THEN r
    ELSE LET s == [r EXCEPT !.sends = Append(r.sends, sent)]
         IN IF r.i < Len(r.alerts)
            THEN [s EXCEPT !.pc = "store_alert", !.i = r.i + 1]
            ELSE Respond(s)

\* what follows one alert's dispatch: the next alert of the loop, or the
\* response (server.py 391-401)
AfterSend(r, sent) ==
    LET s == [r EXCEPT !.sends = Append(r.sends, sent)]
    IN IF r.i < Len(r.alerts)
       THEN [s EXCEPT !.pc = "store_alert", !.i = r.i + 1]
       ELSE Respond(s)

\* variant: the notification is sent whatever send_immediate_alerts says
SendImmediateAlert_IgnoresFlag(q, outcome) ==
    /\ req[q].pc = "send_alert"
    /\ req' = [req EXCEPT ![q] =
                 AfterSend(req[q],
                    IF send_notification(config.ntfy_enabled, outcome)
                    THEN "ok" ELSE "failed")]
    /\ UNCHANGED <<client, weekly, received, ingested, now, config, metrics, clients, alerts, daily_reports, dbLock,
                   run, reportsSent>>

\* await send_immediate_alert(alert): no call when immediate alerts are off;
\* else one notification whose result is dropped (server.py 189-201, 393)
SendImmediateAlert(q, outcome) ==
    /\ req[q].pc = "send_alert"
    /\ req' = [req EXCEPT ![q] =
                 AfterSend(req[q],
                    IF ~config.send_immediate_alerts THEN "skipped"
                    ELSE IF send_notification(config.ntfy_enabled, outcome)
                         THEN "ok" ELSE "failed")]
    /\ UNCHANGED <<client, weekly, received, ingested, now, config, metrics, clients, alerts, daily_reports, dbLock,
                   run, reportsSent>>


\* ------------------------------------------------------ daily report job
\* the clock advances; the scheduler's cron trigger fires the daily_report job
\* at its time of day unless its previous instance still runs (server.py 313-324)
Tick ==
    /\ now < MaxTime
    /\ now' = now + 1
    /\ run' = IF (now + 1) % DayTicks = daily_report_tick % DayTicks
                 /\ run["timer"].pc = "idle"
              THEN [run EXCEPT !["timer"] = [IdleRun EXCEPT !.pc = "triggered"]]
              ELSE run
    /\ UNCHANGED <<client, weekly, received, ingested, config, metrics, clients, alerts, daily_reports, dbLock, req,
                   reportsSent>>

\* POST /test/daily-report awaits send_daily_report, whatever else is running
\* (server.py 483-487)
trigger_daily_report ==
    /\ run["manual"].pc = "idle"
    /\ run' = [run EXCEPT !["manual"] = [IdleRun EXCEPT !.pc = "triggered"]]
    /\ UNCHANGED <<client, weekly, received, ingested, now, config, metrics, clients, alerts, daily_reports, dbLock,
                   req, reportsSent>>

\* variant: every registered client is put into the report, with data or not
Summaries_AllClients(rows, cl, date) == cl

\* the summaries send_daily_report collects: one per client row with data
\* (server.py 124-133)
Summaries(rows, cl, date) ==
    {row \in cl : get_daily_summary(rows, cl, row.client_id, date) # <<>>}

\* variant: a run that ends for want of clients or data records the date
SendDailyReportStart_MarksEmptyRun(r) ==
    /\ run[r].pc = "triggered"
    /\ LET yesterday == Midnight(now)
           summaries == Summaries(metrics, clients, yesterday)
           sent == was_daily_report_sent(daily_reports, yesterday)
       IN /\ run' = [run EXCEPT ![r] =
               IF sent THEN [IdleRun EXCEPT !.last = "already_sent"]
               ELSE IF clients = {} THEN [IdleRun EXCEPT !.last = "no_clients"]
               ELSE IF summaries = {} THEN [IdleRun EXCEPT !.last = "no_data"]
               ELSE [pc |-> "dispatch", yesterday |-> yesterday,
                     n |-> Cardinality(summaries), last |-> None]]
          /\ daily_reports' = IF ~sent /\ summaries = {}
                              THEN Append(daily_reports,
                                          [report_date |-> StrfDate(yesterday),
                                           client_count |-> 0])
                              ELSE daily_reports
    /\ UNCHANGED <<client, weekly, received, ingested, now, config, metrics, clients, alerts, dbLock,
                   req, reportsSent>>

\* variant: the run reports the day before the day it runs on
SendDailyReportStart_PreviousDay(r) ==
    /\ run[r].pc = "triggered"
    /\ LET yesterday == Midnight(now) - DayTicks
           summaries == Summaries(metrics, clients, yesterday)
       IN run' = [run EXCEPT ![r] =
            IF was_daily_report_sent(daily_reports, yesterday)
            THEN [IdleRun EXCEPT !.last = "already_sent"]
            ELSE IF clients = {}
            THEN [IdleRun EXCEPT !.last = "no_clients"]
            ELSE IF summaries = {}
            THEN [IdleRun EXCEPT !.last = "no_data"]
            ELSE [pc |-> "dispatch", yesterday |-> yesterday,
                  n |-> Cardinality(summaries), last |-> None]]
    /\ UNCHANGED <<client, weekly, received, ingested, now, config, metrics, clients, alerts, daily_reports, dbLock,
                   req, reportsSent>>

\* send_daily_report up to the notifier call: dedup check, clients, summaries
\* (server.py 115-177)
SendDailyReportStart(r) ==
    /\ run[r].pc = "triggered"
    /\ LET yesterday == Midnight(now)
           summaries == Summaries(metrics, clients, yesterday)
       IN run' = [run EXCEPT ![r] =
            IF was_daily_report_sent(daily_reports, yesterday)
            THEN [IdleRun EXCEPT !.last = "already_sent"]
            ELSE IF clients = {}
            THEN [IdleRun EXCEPT !.last = "no_clients"]
            ELSE IF summaries = {}
            THEN [IdleRun EXCEPT !.last = "no_data"]
            ELSE [pc |-> "dispatch", yesterday |-> yesterday,
                  n |-> Cardinality(summaries), last |-> None]]
    /\ UNCHANGED <<client, weekly, received, ingested, now, config, metrics, clients, alerts, daily_reports, dbLock,
                   req, reportsSent>>

\* variant: the marker is written when the notifier returned failure
RecordsMarker_OnFailure(success) == ~success

\* variant: the marker is written whatever the notifier returned
RecordsMarker_Always(success) == TRUE

\* "if success:" the marker is written (server.py 179-180)
RecordsMarker(success) == success

\* Database.store_daily_report (database.py 366-378)
store_daily_report(reports, report_date, client_count) ==
    Append(reports, [report_date |-> StrfDate(report_date),
                     client_count |-> client_count])

\* the store writes of send_daily_report that can raise
Faults == {"none", "store_daily_report", "cleanup_old_data"}

\* variant: the cleanup is part of the success branch
SendDailyReportFinish_PrunesOnSuccess(r, outcome, fault) ==
    /\ run[r].pc = "dispatch"
    /\ LET success == send_notification(config.ntfy_enabled, outcome)
           delivered == Delivered(config.ntfy_enabled, outcome)
           date == StrfDate(run[r].yesterday)
           records == RecordsMarker(success)
           recorded == records /\ fault # "store_daily_report"
           cleaned == fault = "none" /\ success
           cutoff == now - retention_days * DayTicks
       IN /\ fault = "store_daily_report" => records
          /\ (recorded \/ cleaned) => CanWrite(r)
          /\ delivered => reportsSent[date] < MaxSent
          /\ reportsSent' = IF delivered
                            THEN [reportsSent EXCEPT ![date] = @ + 1]
                            ELSE reportsSent
          /\ daily_reports' =
               IF recorded
               THEN store_daily_report(daily_reports, run[r].yesterday, run[r].n)
               ELSE daily_reports
          /\ metrics' = IF cleaned THEN KeepFrom(metrics, cutoff, TRUE) ELSE metrics
          /\ alerts' = IF cleaned THEN KeepFrom(alerts, cutoff, FALSE) ELSE alerts
          /\ run' = [run EXCEPT ![r] =
                       [IdleRun EXCEPT !.last = IF fault # "none" THEN "error"
                                                ELSE IF success THEN "sent"
                                                ELSE "failed"]]
    /\ UNCHANGED <<client, weekly, received, ingested, now, config, clients, dbLock, req>>

\* send_daily_report from the return of the notifier call to its end: the
\* marker on success, then the cleanup; a store write that raises ends the run
\* there.  The part runs without suspension (server.py 172-186,
\* database.py 345-378)
SendDailyReportFinish(r, outcome, fault) ==
    /\ run[r].pc = "dispatch"
    /\ LET success == send_notification(config.ntfy_enabled, outcome)
           delivered == Delivered(config.ntfy_enabled, outcome)
           date == StrfDate(run[r].yesterday)
           records == RecordsMarker(success)
           recorded == records /\ fault # "store_daily_report"
           cleaned == fault = "none"
           cutoff == now - retention_days * DayTicks
       IN /\ fault = "store_daily_report" => records
          /\ (recorded \/ cleaned) => CanWrite(r)
          /\ delivered => reportsSent[date] < MaxSent
          /\ reportsSent' = IF delivered
                            THEN [reportsSent EXCEPT ![date] = @ + 1]
                            ELSE reportsSent
          /\ daily_reports' =
               IF recorded
               THEN store_daily_report(daily_reports, run[r].yesterday, run[r].n)
               ELSE daily_reports
          /\ metrics' = IF cleaned THEN KeepFrom(metrics, cutoff, TRUE) ELSE metrics
          /\ alerts' = IF cleaned THEN KeepFrom(alerts, cutoff, FALSE) ELSE alerts
          /\ run' = [run EXCEPT ![r] =
                       [IdleRun EXCEPT !.last = IF fault # "none" THEN "error"
                                                ELSE IF success THEN "sent"
                                                ELSE "failed"]]
    /\ UNCHANGED <<client, weekly, received, ingested, now, config, clients, dbLock, req>>

\* ------------------------------------------------------- specifications
\* receive_metrics up to the evaluation of the thresholds
StoreStep(q, inputs, limit) ==
    \/ \E m \in inputs : ReceiveMetrics(q, m, limit)
    \/ StoreMetricsInsert(q)
    \/ StoreMetricsUpsert(q)
    \/ StoreMetricsCommit(q)
    \/ StoreMetricsFail(q)
    \/ CheckThresholds(q)

\* the alert loop of receive_metrics
AlertStep(q) ==
    \/ StoreAlert(q)
    \/ StoreAlertFail(q)
    \/ \E outcome \in HttpOutcomes : SendImmediateAlert(q, outcome)

ReportStep(r) ==
    \/ SendDailyReportStart(r)
    \/ \E outcome \in HttpOutcomes, fault \in Faults :
          SendDailyReportFinish(r, outcome, fault)

\* the report job beside the clock and the ingest of snapshots that raise no
\* alert (with these inputs the alert loop of receive_metrics is never entered)
Next ==
    \/ Tick
    \/ trigger_daily_report
    \/ StoreStep("q1", QuietSnapshotsAt(now), MaxIngests)
    \/ \E r \in Runs : ReportStep(r)

Spec == Init /\ [][Next]_vars

\* the store under concurrent ingest requests
NextIngest ==
    \E q \in Reqs : StoreStep(q, SnapshotInputs, MaxRequests) \/ AlertStep(q)

SpecIngest == InitIngest /\ [][NextIngest]_vars


\* ------------------------------------------------------------ properties
\* a marker row for the date exists
MarkerIn(reports, d) == \E i \in 1..Len(reports) : reports[i].report_date = d

MarkerExists(d) == MarkerIn(daily_reports, d)

\* run r takes a step
Steps(r) == run'[r] # run[r]

\* run r is between its dedup check and its marker write
InFlight(r) == run[r].pc = "dispatch"

\* C1: for every date, at most one daily report notification is ever
\* delivered, whatever the interleaving of timer and manual runs and whatever
\* fails.
C1_AtMostOneReportPerDate == \A d \in Dates : reportsSent[d] <= 1

\* C2: a run whose notifier call returned failure writes no marker (its
\* finishing step leaves daily_reports as it is), and a trigger that finds no
\* marker for its date passes the dedup check: with data for the date it
\* reaches the dispatch again.
C2_FailedRunStep ==
    \A r \in Runs :
       /\ (Steps(r) /\ run[r].pc = "dispatch" /\ run'[r].last = "failed")
          => daily_reports' = daily_reports
       /\ (Steps(r) /\ run[r].pc = "triggered" /\ ~MarkerExists(StrfDate(now)))
          => /\ run'[r].last # "already_sent"
             /\ Summaries(metrics, clients, Midnight(now)) # {}
                => run'[r].pc = "dispatch"

C2_FailedDispatchWritesNoMarker == [][C2_FailedRunStep]_vars

\* a dispatch failed, no marker was written for the date, and a run for the
\* same date has passed the dedup check and is dispatching
C2_Witness ==
    /\ run["timer"].pc = "idle" /\ run["timer"].last = "failed"
    /\ run["manual"].pc = "dispatch"
    /\ ~MarkerExists(StrfDate(run["manual"].yesterday))
    /\ reportsSent[StrfDate(run["manual"].yesterday)] = 0

\* C3: a run that finishes after a successful dispatch leaves the marker of
\* its date in the store, markers are never removed, and a run that finds the
\* marker of its date goes from the dedup check straight back to idle: it
\* dispatches nothing and writes nothing.
C3_SecondRunStep ==
    /\ \A d \in Dates : MarkerExists(d) => MarkerIn(daily_reports', d)
    /\ \A r \in Runs :
          /\ (Steps(r) /\ run[r].pc = "dispatch" /\ run'[r].last = "sent")
                => MarkerIn(daily_reports', StrfDate(run[r].yesterday))
          /\ (Steps(r) /\ run[r].pc = "triggered" /\ MarkerExists(StrfDate(now)))
                => /\ run'[r].pc = "idle" /\ run'[r].last = "already_sent"
                   /\ UNCHANGED <<daily_reports, reportsSent, metrics, alerts>>

C3_SecondRunSendsNothing == [][C3_SecondRunStep]_vars

\* the report of a date was delivered once and recorded, and a later run for
\* that date ended at the dedup check
C3_Witness ==
    \E d \in Dates :
       /\ reportsSent[d] = 1 /\ MarkerExists(d) /\ now \div DayTicks = d
       /\ run["timer"].pc = "idle" /\ run["timer"].last = "sent"
       /\ run["manual"].pc = "idle" /\ run["manual"].last = "already_sent"

\* C4: two runs of the daily report are never in flight at the same time.
C4_NoOverlappingRuns == Cardinality({r \in Runs : InFlight(r)}) <= 1

\* ------------------------------------------------- properties of the store
\* the committed snapshot rows of client c
RowsOf(c) == Cardinality({i \in 1..Len(metrics) : metrics[i].client_id = c})

ClientRows(c) == {row \in clients : row.client_id = c}

ClientRowsIn(cl, c) == {row \in cl : row.client_id = c}

\* metrics_count of client c in table cl; 0 without a row
MetricsCountIn(cl, c) ==
    IF ClientRowsIn(cl, c) = {} THEN 0
    ELSE (CHOOSE row \in ClientRowsIn(cl, c) : TRUE).metrics_count

MetricsCount(c) == MetricsCountIn(clients, c)

\* request q is inside receive_metrics and still holds its snapshot
Holds(q) == req[q].pc \notin {"idle", "responded"}

\* C5: whatever store_metrics calls have committed, failed or are still inside
\* their transaction, the committed tables agree: a client has a row exactly
\* when it has a snapshot row, and its metrics_count is the number of its
\* snapshot rows.
C5_SnapshotAndClientRowTogether ==
    \A c \in ClientIds :
       /\ (RowsOf(c) > 0) <=> (ClientRows(c) # {})
       /\ MetricsCount(c) = RowsOf(c)

\* one store_metrics call failed at its commit, after both statements, and
\* another one committed
C5_Witness ==
    \E q, p \in Reqs :
       /\ req[q].pc = "responded" /\ req[q].failed_at = "commit"
       /\ req[p].stored
       /\ \E c \in ClientIds : RowsOf(c) = 1 /\ MetricsCount(c) = 1

\* C6: a client with k >= 1 store_metrics calls that returned has exactly one
\* client row, and the row's metrics_count is k.
C6_OneClientRowCountingIngests ==
    \A c \in ClientIds :
       ingested[c] >= 1 =>
          /\ Cardinality(ClientRows(c)) = 1
          /\ \A row \in ClientRows(c) : row.metrics_count = ingested[c]

\* two snapshots of one new client were ingested
C6_Witness ==
    \E c \in ClientIds :
       /\ ingested[c] = 2
       /\ \E row \in clients : row.client_id = c /\ row.metrics_count = 2

\* C7: every commit of a store_metrics call raises the metrics_count of its
\* client by exactly one and leaves the other clients' counts alone, whatever
\* the other request is doing at the time.
C7_CommitStep ==
    \A q \in Reqs :
       (req[q].pc = "commit" /\ req'[q].pc = "check_thresholds") =>
          \A c \in ClientIds :
             MetricsCountIn(clients', c) =
                MetricsCount(c) + (IF c = req[q].m[1].client_id THEN 1 ELSE 0)

C7_NoLostIncrement == [][C7_CommitStep]_vars

\* two calls for one client overlap: the first has committed and is still in
\* its handler, the second is at its commit with the count it read after that
C7_Witness ==
    \E q, p \in Reqs :
       /\ q # p
       /\ req[q].pc = "check_thresholds" /\ req[p].pc = "commit"
       /\ req[q].m[1].client_id = req[p].m[1].client_id
       /\ MetricsCount(req[p].m[1].client_id) = 1
       /\ \E row \in req[p].tx.add : row.metrics_count = 2

\* last_seen of client c in table cl
LastSeenIn(cl, c) == (CHOOSE row \in ClientRowsIn(cl, c) : TRUE).last_seen

\* C8: no step lowers the last_seen of a client row.
C8_LastSeenStep ==
    \A c \in ClientIds :
       (ClientRows(c) # {} /\ ClientRowsIn(clients', c) # {}) =>
          LastSeenIn(clients', c) >= LastSeenIn(clients, c)

C8_LastSeenNeverDecreases == [][C8_LastSeenStep]_vars

Last(s) == s[Len(s)]

\* C9: the step that ends one alert's notification changes no table, whatever
\* the notifier returned, and is followed by the store of the next alert of
\* the request or, after the last alert, by the ok response; a request that
\* responded ok has stored and dispatched every alert of its snapshot.
C9_AlertStep ==
    \A q \in Reqs :
       /\ (req[q].pc = "send_alert" /\ req'[q].pc # "send_alert") =>
             /\ UNCHANGED <<metrics, clients, alerts>>
             /\ Len(req'[q].sends) = Len(req[q].sends) + 1
             /\ req'[q].saved = req[q].saved
             /\ IF req[q].i < Len(req[q].alerts)
                THEN req'[q].pc = "store_alert" /\ req'[q].i = req[q].i + 1
                ELSE req'[q].pc = "responded" /\ req'[q].status = "ok"
       /\ (req'[q].pc = "responded" /\ req'[q].status = "ok") =>
             /\ req'[q].saved = Len(req'[q].alerts)
             /\ Len(req'[q].sends) = Len(req'[q].alerts)

C9_FailedAlertStopsNothing == [][C9_AlertStep]_vars

\* the first of two alerts failed to be sent, the second was stored and sent
C9_Witness ==
    \E q \in Reqs :
       /\ req[q].pc = "responded" /\ req[q].status = "ok"
       /\ req[q].sends = <<"failed", "ok">>
       /\ req[q].saved = 2 /\ req[q].stored
       /\ Len(alerts) >= 2

\* C10: the response is ok exactly when the snapshot row was committed.
C10_OkIffSnapshotCommitted ==
    \A q \in Reqs :
       req[q].pc = "responded" => ((req[q].status = "ok") <=> req[q].stored)

\* C11: a request whose store_metrics raised never reaches the evaluation of
\* the thresholds or the alert loop, and it responds with an error, with no
\* alert evaluated, stored or dispatched.
C11_StorageErrorAborts ==
    \A q \in Reqs :
       /\ req[q].pc \in {"check_thresholds", "store_alert", "send_alert"}
             => req[q].stored /\ req[q].failed_at = None
       /\ (req[q].pc = "responded" /\ ~req[q].stored) =>
             /\ req[q].status = "error"
             /\ req[q].failed_at \in {"insert_metrics", "upsert_client", "commit"}
             /\ req[q].alerts = <<>> /\ req[q].saved = 0 /\ req[q].sends = <<>>

\* store_metrics raised at the client upsert: the request ended with an error
\* and the tables hold neither a snapshot nor an alert
C11_Witness ==
    \E q \in Reqs :
       /\ req[q].pc = "responded" /\ req[q].status = "error"
       /\ req[q].failed_at = "upsert_client"
       /\ metrics = <<>> /\ alerts = <<>> /\ clients = {}

\* ------------------------------------------------ the alerts table, read
RECURSIVE InsertByRecordedAt(_, _)
\* ORDER BY recorded_at ASC, rows of equal recorded_at in id order
InsertByRecordedAt(sorted, r) ==
    IF sorted = <<>> THEN <<r>>
    ELSE IF Head(sorted).recorded_at <= r.recorded_at
         THEN <<Head(sorted)>> \o InsertByRecordedAt(Tail(sorted), r)
         ELSE <<r>> \o sorted

RECURSIVE OrderByRecordedAt(_)
OrderByRecordedAt(rows) ==
    IF rows = <<>> THEN <<>>
    ELSE InsertByRecordedAt(OrderByRecordedAt(SubSeq(rows, 1, Len(rows) - 1)),
                            rows[Len(rows)])

\* Database.get_unnotified_alerts: the rows with notified = 0, oldest first,
\* as Alert objects (database.py 208-224)
get_unnotified_alerts(rows) ==
    LET open == OrderByRecordedAt(SelectSeq(rows, LAMBDA r : r.notified = 0))
    IN [i \in 1..Len(open) |->
          [client_id |-> open[i].client_id, hostname |-> open[i].hostname,
           metric_name |-> open[i].metric_name,
           current_value |-> open[i].current_value,
           threshold_value |-> open[i].threshold_value,
           recorded_at |-> open[i].recorded_at]]

\* C12: an alert of a request whose notification succeeded is no longer
\* returned by get_unnotified_alerts.
C12_DispatchedAlertIsNotified ==
    \A q \in Reqs :
       \A i \in 1..Len(req[q].sends) :
          req[q].sends[i] = "ok" =>
             req[q].alerts[i] \notin SeqToSet(get_unnotified_alerts(alerts))

\* ------------------------------------------- the Database, method by method
\* variant: UPDATE alerts SET notified = NOT notified WHERE recorded_at <= ?
mark_alerts_notified_Toggle(rows, before) ==
    [i \in 1..Len(rows) |->
        IF rows[i].recorded_at <= before
        THEN [rows[i] EXCEPT !.notified = 1 - @]
        ELSE rows[i]]

\* Database.mark_alerts_notified (database.py 226-233)
mark_alerts_notified(rows, before) ==
    [i \in 1..Len(rows) |->
        IF rows[i].recorded_at <= before /\ rows[i].notified = 0
        THEN [rows[i] EXCEPT !.notified = 1]
        ELSE rows[i]]

\* the alerts the evaluator hands to store_alert at time t: recorded_at is
\* the time of the evaluation (server.py 39, 392)
StoreAlertsAt(t) ==
    {check_thresholds(SystemMetrics("a", t, Hot), AlertThresholds, t)[1]}

RetentionInputs == 0..retention_days

\* datetime.utcnow() moves on
Advance ==
    /\ now < MaxTime
    /\ now' = now + 1
    /\ UNCHANGED <<client, weekly, config, metrics, clients, alerts, daily_reports, dbLock, req,
                   run, received, ingested, reportsSent>>

\* Database.store_metrics, the whole method on its connection, for at most
\* limit calls (database.py 125-186)
DbStoreMetricsUpTo(m, limit) ==
    /\ received < limit
    /\ metrics' = InsertMetrics(metrics, m)
    /\ clients' = UpsertClient(clients, m)
    /\ received' = received + 1
    /\ ingested' = [ingested EXCEPT ![m.client_id] = @ + 1]
    /\ UNCHANGED <<client, weekly, now, config, alerts, daily_reports, dbLock, req, run,
                   reportsSent>>

DbStoreMetrics(m) == DbStoreMetricsUpTo(m, MaxRequests)

\* Database.store_alert (database.py 188-206)
DbStoreAlert(a) ==
    /\ Len(alerts) < MaxAlerts
    /\ alerts' = Append(alerts, AlertRow(a))
    /\ UNCHANGED <<client, weekly, now, config, metrics, clients, daily_reports, dbLock, req,
                   run, received, ingested, reportsSent>>

\* Database.mark_alerts_notified(before) (database.py 226-233)
DbMarkAlertsNotified(before) ==
    /\ alerts' = mark_alerts_notified(alerts, before)
    /\ UNCHANGED <<client, weekly, now, config, metrics, clients, daily_reports, dbLock, req,
                   run, received, ingested, reportsSent>>

\* what cleanup_old_data hands back to its caller: the two rowcounts go into
\* the log line and the method ends without a return statement, so the value
\* is None (<<>>) whatever was deleted (database.py 354-364)
cleanup_old_data_result(deleted_metrics, deleted_alerts) == <<>>

\* variant: the cleanup also deletes the clients not seen since the cutoff
DbCleanupOldData_PrunesClients(days) ==
    /\ LET cutoff == now - days * DayTicks
       IN /\ metrics' = KeepFrom(metrics, cutoff, TRUE)
          /\ alerts' = KeepFrom(alerts, cutoff, FALSE)
          /\ clients' = {row \in clients : ~(row.last_seen < cutoff)}
    /\ UNCHANGED <<client, weekly, now, config, daily_reports, dbLock, req, run,
                   received, ingested, reportsSent>>

\* variant: the cleanup sets metrics_count to the snapshots left
DbCleanupOldData_Recounts(days) ==
    /\ LET cutoff == now - days * DayTicks
           kept == KeepFrom(metrics, cutoff, TRUE)
       IN /\ metrics' = kept
          /\ alerts' = KeepFrom(alerts, cutoff, FALSE)
          /\ clients' =
               {[row EXCEPT !.metrics_count =
                    Cardinality({i \in 1..Len(kept) :
                                    kept[i].client_id = row.client_id})] :
                  row \in clients}
    /\ UNCHANGED <<client, weekly, now, config, daily_reports, dbLock, req, run,
                   received, ingested, reportsSent>>

\* Database.cleanup_old_data(days): both DELETEs and the commit
\* (database.py 345-364)
DbCleanupOldData(days) ==
    /\ LET cutoff == now - days * DayTicks
       IN /\ metrics' = KeepFrom(metrics, cutoff, TRUE)
          /\ alerts' = KeepFrom(alerts, cutoff, FALSE)
    /\ UNCHANGED <<client, weekly, now, config, clients, daily_reports, dbLock, req, run,
                   received, ingested, reportsSent>>

\* Database.store_daily_report for the current day, called as
\* send_daily_report calls it: after was_daily_report_sent said no
\* (database.py 366-378, server.py 118, 180)
DbStoreDailyReport ==
    /\ ~was_daily_report_sent(daily_reports, Midnight(now))
    /\ daily_reports' =
          store_daily_report(daily_reports, Midnight(now), Cardinality(clients))
    /\ UNCHANGED <<client, weekly, now, config, metrics, clients, alerts, dbLock, req, run,
                   received, ingested, reportsSent>>

\* the methods of the Database called in any order
NextStore ==
    \/ Advance
    \/ \E m \in QuietSnapshotsAt(now) : DbStoreMetrics(m)
    \/ \E a \in StoreAlertsAt(now) : DbStoreAlert(a)
    \/ \E before \in Times : DbMarkAlertsNotified(before)
    \/ \E days \in RetentionInputs : DbCleanupOldData(days)
    \/ DbStoreDailyReport

SpecStore == Init /\ [][NextStore]_vars

\* ---------------------------------------------- properties of the Database
\* every field of an alert row but its notified flag
SameAlert(r1, r2) == [r1 EXCEPT !.notified = 0] = [r2 EXCEPT !.notified = 0]

\* C13: a row added to alerts has notified = 0; a step that rewrites alerts
\* in place changes nothing but notified flags, and those only from 0 to 1; a
\* step that removes rows leaves the surviving rows as they were.
C13_NotifiedStep ==
    /\ Len(alerts') > Len(alerts) =>
          /\ SubSeq(alerts', 1, Len(alerts)) = alerts
          /\ \A i \in (Len(alerts) + 1)..Len(alerts') : alerts'[i].notified = 0
    /\ Len(alerts') = Len(alerts) =>
          \A i \in 1..Len(alerts) :
             /\ SameAlert(alerts'[i], alerts[i])
             /\ alerts[i].notified \in {0, 1}
             /\ alerts'[i].notified \in {alerts[i].notified, 1}
    /\ Len(alerts') < Len(alerts) =>
          \A j \in 1..Len(alerts') : \E i \in 1..Len(alerts) : alerts'[j] = alerts[i]

C13_NotifiedOnlyRises == [][C13_NotifiedStep]_vars

\* an alert was marked notified and a later one is still unnotified
C13_Witness ==
    \E i, j \in 1..Len(alerts) :
       /\ i < j
       /\ alerts[i].notified = 1 /\ alerts[j].notified = 0
       /\ alerts[i].recorded_at < alerts[j].recorded_at

\* the rows of a table equal to v
Count(rows, v) == Cardinality({i \in 1..Len(rows) : rows[i] = v})

\* C14: cleanup_old_data(days) at time now removes every snapshot row whose
\* collected_at and every alert row whose recorded_at is before
\* now - days, keeps every other row, and adds none.
C14_CleanupStep ==
    \A days \in RetentionInputs :
       DbCleanupOldData(days) =>
          LET cutoff == now - days * DayTicks
          IN /\ SeqToSet(metrics') \subseteq SeqToSet(metrics)
             /\ SeqToSet(alerts') \subseteq SeqToSet(alerts)
             /\ \A v \in SeqToSet(metrics) :
                   Count(metrics', v) =
                      IF v.collected_at < cutoff THEN 0 ELSE Count(metrics, v)
             /\ \A v \in SeqToSet(alerts) :
                   Count(alerts', v) =
                      IF v.recorded_at < cutoff THEN 0 ELSE Count(alerts, v)

C14_CleanupDeletesExactlyTheOld == [][C14_CleanupStep]_vars

\* of a client's two snapshots the older one was deleted; the one taken at
\* the cutoff itself survived
C14_Witness ==
    \E c \in ClientIds :
       /\ MetricsCount(c) = 2 /\ RowsOf(c) = 1
       /\ \E i \in 1..Len(metrics) :
             metrics[i].client_id = c /\ metrics[i].collected_at = now
       /\ now > 0

\* C15: a step of cleanup_old_data, and any step that removes snapshot or
\* alert rows, leaves the client rows and the report markers as they are.
C15_CleanupFrameStep ==
    (\/ \E days \in RetentionInputs : DbCleanupOldData(days)
     \/ Len(metrics') < Len(metrics)
     \/ Len(alerts') < Len(alerts))
    => UNCHANGED <<clients, daily_reports>>

C15_CleanupKeepsClientsAndMarkers == [][C15_CleanupFrameStep]_vars

\* every snapshot was pruned; the client rows and a marker are still there
C15_Witness ==
    /\ metrics = <<>>
    /\ daily_reports # <<>>
    /\ \E row \in clients : row.metrics_count >= 1 /\ row.last_seen < now

\* C16: no two committed snapshot rows have the same (client_id, collected_at).
C16_SnapshotKeyIsUnique ==
    \A i, j \in 1..Len(metrics) :
       (/\ metrics[i].client_id = metrics[j].client_id
        /\ metrics[i].collected_at = metrics[j].collected_at) => i = j

\* --------------------------------------------- the evaluator on its own
\* disk partitions: none, one at the default threshold, two of which the
\* second or the first is under it, two over it in either order
PartitionInputs ==
    {<<>>,
     <<[mountpoint |-> "/", percent_used |-> 85]>>,
     <<[mountpoint |-> "/", percent_used |-> 86],
       [mountpoint |-> "/data", percent_used |-> 85]>>,
     <<[mountpoint |-> "/", percent_used |-> 85],
       [mountpoint |-> "/data", percent_used |-> 86]>>,
     <<[mountpoint |-> "/", percent_used |-> 86],
       [mountpoint |-> "/data", percent_used |-> 90]>>,
     <<[mountpoint |-> "/data", percent_used |-> 90],
       [mountpoint |-> "/", percent_used |-> 86]>>}

\* CPUTemperature: no reading, a reading flagged unavailable, and readings of
\* 0, at and over the default threshold (models.py 26-30)
TemperatureInputs ==
    {[max_temp_celsius |-> <<>>, available |-> TRUE],
     [max_temp_celsius |-> <<81>>, available |-> FALSE],
     [max_temp_celsius |-> <<0>>, available |-> TRUE],
     [max_temp_celsius |-> <<80>>, available |-> TRUE],
     [max_temp_celsius |-> <<81>>, available |-> TRUE]}

\* values at and just over the default thresholds; the 5 and 15 minute loads
\* under and over every load threshold
EvalProfiles ==
    [cpu_percent : {90, 91}, cpu_count : {2}, ram_percent : {90, 91},
     disk_partitions : PartitionInputs, cpu_temperature : TemperatureInputs,
     network_io : {[bytes_sent |-> 0, bytes_recv |-> 0]},
     load_avg_1 : {4, 5}, load_avg_5 : {1, 9}, load_avg_15 : {1, 9}]

EvalSnapshots == {SystemMetrics("a", 0, p) : p \in EvalProfiles}

\* the defaults, and thresholds an operator set low (config.py 31-37)
LowThresholds ==
    [cpu_percent |-> 50, ram_percent |-> 50, disk_percent |-> 50,
     temperature_celsius |-> -1, load_avg_multiplier |-> 1]

ThresholdInputs == {AlertThresholds, LowThresholds}

\* alerts = check_thresholds(metrics, thresholds) for a snapshot m under the
\* configured thresholds th (server.py 380-389)
Evaluate(m, th) ==
    /\ req["q1"].pc = "idle"
    /\ req' = [req EXCEPT !["q1"] =
                 [IdleReq EXCEPT !.pc = "evaluated", !.m = <<m>>,
                                 !.alerts = check_thresholds(m, th, now)]]
    /\ UNCHANGED <<client, weekly, now, config, metrics, clients, alerts, daily_reports, dbLock,
                   run, received, ingested, reportsSent>>

NextEval == \E m \in EvalSnapshots, th \in ThresholdInputs : Evaluate(m, th)

SpecEval == Init /\ [][NextEval]_vars

\* the alerts of a list whose metric_name is in names
Named(found, names) == SelectSeq(found, LAMBDA a : a.metric_name \in names)

\* the snapshot and the alerts of the last evaluation
Evaluated == req["q1"].pc = "evaluated"

Snapshot == req["q1"].m[1]

Found == req["q1"].alerts

\* C17: check_thresholds returns exactly one cpu_percent alert, carrying the
\* value and the threshold, when cpu_percent > threshold, and none otherwise.
C17_CpuStep ==
    \A m \in EvalSnapshots, th \in ThresholdInputs :
       Evaluate(m, th) =>
          LET cpu == Named(req'["q1"].alerts, {"cpu_percent"})
          IN IF m.cpu_percent > th.cpu_percent
             THEN /\ Len(cpu) = 1
                  /\ cpu[1].current_value = m.cpu_percent
                  /\ cpu[1].threshold_value = th.cpu_percent
             ELSE cpu = <<>>

C17_CpuAlertIffOverThreshold == [][C17_CpuStep]_vars

\* a snapshot whose cpu_percent is the default threshold itself raised no cpu
\* alert, while its ram_percent, over its threshold, raised the ram alert
C17_Witness ==
    /\ Evaluated
    /\ Snapshot.cpu_percent = cpu_percent_threshold
    /\ Named(Found, {"cpu_percent"}) = <<>>
    /\ \E i \in 1..Len(Found) :
          Found[i].metric_name = "ram_percent"
          /\ Found[i].threshold_value = ram_percent_threshold

DiskNames == {"disk_/", "disk_/data"}

\* C18: the disk alerts of check_thresholds are, in this order, the
\* partitions of the snapshot with percent_used > threshold.
C18_DiskStep ==
    \A m \in EvalSnapshots, th \in ThresholdInputs :
       Evaluate(m, th) =>
          LET disk == Named(req'["q1"].alerts, DiskNames)
              over == SelectSeq(m.disk_partitions,
                                LAMBDA p : p.percent_used > th.disk_percent)
          IN /\ Len(disk) = Len(over)
             /\ \A i \in 1..Len(over) :
                   /\ disk[i].metric_name = DiskMetricName(over[i].mountpoint)
                   /\ disk[i].current_value = over[i].percent_used

C18_OneDiskAlertPerFullPartition == [][C18_DiskStep]_vars

\* two partitions over the threshold, /data before /: two disk alerts in
\* that order
C18_Witness ==
    /\ Evaluated
    /\ Len(Snapshot.disk_partitions) = 2
    /\ Snapshot.disk_partitions[1].mountpoint = "/data"
    /\ LET disk == Named(Found, DiskNames)
       IN /\ Len(disk) = 2
          /\ disk[1].metric_name = "disk_/data" /\ disk[2].metric_name = "disk_/"
          /\ disk[1].threshold_value = disk_percent_threshold

\* the place of a metric in the order cpu, ram, disk, temperature, load
Rank(name) ==
    CASE name = "cpu_percent" -> 1
      [] name = "ram_percent" -> 2
      [] name \in DiskNames -> 3
      [] name = "cpu_temperature" -> 4
      [] name = "load_avg" -> 5

\* the position of a mountpoint among the partitions of a snapshot
PartitionIndex(m, name) ==
    CHOOSE k \in 1..Len(m.disk_partitions) :
       DiskMetricName(m.disk_partitions[k].mountpoint) = name

\* C19: in the list check_thresholds returns, cpu comes before ram, ram
\* before the disk alerts, those before temperature, that before load, each
\* at most once but for disk, and the disk alerts are in partition order.
C19_OrderStep ==
    \A m \in EvalSnapshots, th \in ThresholdInputs :
       Evaluate(m, th) =>
          LET found == req'["q1"].alerts
          IN \A i, j \in 1..Len(found) :
                i < j =>
                   /\ Rank(found[i].metric_name) <= Rank(found[j].metric_name)
                   /\ Rank(found[i].metric_name) = Rank(found[j].metric_name) =>
                         /\ found[i].metric_name \in DiskNames
                         /\ PartitionIndex(m, found[i].metric_name)
                               < PartitionIndex(m, found[j].metric_name)

C19_AlertsInFixedOrder == [][C19_OrderStep]_vars

\* every check raised its alert: cpu, ram, two partitions, temperature, load
C19_Witness ==
    /\ Evaluated
    /\ Len(Found) = 6
    /\ Found[1].metric_name = "cpu_percent" /\ Found[2].metric_name = "ram_percent"
    /\ Found[3].metric_name = "disk_/data" /\ Found[4].metric_name = "disk_/"
    /\ Found[5].metric_name = "cpu_temperature" /\ Found[6].metric_name = "load_avg"

\* C20: check_thresholds returns a temperature alert exactly when the
\* reading is available, present and > the temperature threshold.
C20_TemperatureStep ==
    \A m \in EvalSnapshots, th \in ThresholdInputs :
       Evaluate(m, th) =>
          LET temp == m.cpu_temperature
              raised == Named(req'["q1"].alerts, {"cpu_temperature"}) # <<>>
          IN raised <=> (/\ temp.available
                         /\ temp.max_temp_celsius # <<>>
                         /\ temp.max_temp_celsius[1] > th.temperature_celsius)

C20_TemperatureAlertIffOverThreshold == [][C20_TemperatureStep]_vars

\* the 5 and 15 minute load averages a snapshot can carry
OtherLoads == {p.load_avg_5 : p \in EvalProfiles} \cup {p.load_avg_15 : p \in EvalProfiles}

\* C21: check_thresholds returns one load_avg alert, carrying load_avg_1 and
\* the limit load_avg_multiplier * cpu_count, exactly when load_avg_1 is
\* strictly greater than that limit, and the whole result is the same
\* whatever load_avg_5 and load_avg_15 are.
C21_LoadStep ==
    \A m \in EvalSnapshots, th \in ThresholdInputs :
       Evaluate(m, th) =>
          LET load == Named(req'["q1"].alerts, {"load_avg"})
              limit == th.load_avg_multiplier * m.cpu_count
          IN /\ IF m.load_avg_1 > limit
                THEN /\ Len(load) = 1
                     /\ load[1].current_value = m.load_avg_1
                     /\ load[1].threshold_value = limit
                ELSE load = <<>>
             /\ \A l5, l15 \in OtherLoads :
                   check_thresholds([m EXCEPT !.load_avg_5 = l5, !.load_avg_15 = l15],
                                    th, now) = req'["q1"].alerts

C21_LoadAlertIffLoad1OverLimit == [][C21_LoadStep]_vars

\* a snapshot whose load_avg_1 is the limit itself, with load_avg_5 and
\* load_avg_15 far over it, raised no load alert
C21_Witness ==
    /\ Evaluated
    /\ Snapshot.load_avg_1 = load_avg_multiplier * Snapshot.cpu_count
    /\ Snapshot.load_avg_5 > Snapshot.load_avg_1
    /\ Snapshot.load_avg_15 > Snapshot.load_avg_1
    /\ Named(Found, {"load_avg"}) = <<>>
    /\ Found # <<>>

\* C22: an evaluation changes nothing outside the request that made it, and
\* the list it returns is the list check_thresholds returns for the same
\* snapshot and thresholds at every other moment, every field equal.
C22_DeterministicStep ==
    \A m \in EvalSnapshots, th \in ThresholdInputs :
       Evaluate(m, th) =>
          /\ UNCHANGED <<now, config, metrics, clients, alerts, daily_reports,
                         dbLock, run, received, ingested, reportsSent>>
          /\ \A t \in Times : check_thresholds(m, th, t) = req'["q1"].alerts

C22_EvaluationIsDeterministic == [][C22_DeterministicStep]_vars

\* ------------------------------------------------ the summary on its own
\* what one client reports over a day: cpu and ram one apart, partitions that
\* are absent, empty (0 percent) or filling, a temperature that is present,
\* absent, or present though flagged unavailable, and byte counters that
\* grow and restart
SummaryProfiles ==
    {Quiet,
     [Quiet EXCEPT !.cpu_percent = 11,
                   !.disk_partitions = <<[mountpoint |-> "/", percent_used |-> 50],
                                         [mountpoint |-> "/data", percent_used |-> 70]>>,
                   !.cpu_temperature = [max_temp_celsius |-> <<>>, available |-> FALSE],
                   !.network_io = [bytes_sent |-> 3, bytes_recv |-> GiB]],
     [Quiet EXCEPT !.ram_percent = 41,
                   !.disk_partitions = <<[mountpoint |-> "/", percent_used |-> 0]>>,
                   !.cpu_temperature = [max_temp_celsius |-> <<60>>, available |-> FALSE],
                   !.network_io = [bytes_sent |-> GiB, bytes_recv |-> 6]],
     [Quiet EXCEPT !.cpu_percent = 11, !.ram_percent = 41,
                   !.disk_partitions = <<>>,
                   !.cpu_temperature = [max_temp_celsius |-> <<>>, available |-> TRUE]]}

SummarySnapshotsAt(t) == {SystemMetrics("a", t, p) : p \in SummaryProfiles}

\* snapshots of one client are stored while the clock advances; every state
\* of the store is one get_daily_summary can be called in
NextSummary ==
    \/ Advance
    \/ \E m \in SummarySnapshotsAt(now) : DbStoreMetricsUpTo(m, MaxSamples)

SpecSummary == Init /\ [][NextSummary]_vars

\* ------------------------------------------- properties of the summary
\* the summary of client c for the day of time t, in the store as it is
SummaryOf(c, t) == get_daily_summary(metrics, clients, c, t)

\* the snapshot rows of client c collected on the day of time t
DayRows(c, t) ==
    {i \in 1..Len(metrics) :
        /\ metrics[i].client_id = c
        /\ metrics[i].collected_at >= Midnight(t)
        /\ metrics[i].collected_at < Midnight(t) + DayTicks}

\* the total of value(row) over the rows idx of table metrics
Total(idx, value(_)) ==
    Sum([i \in 1..Len(metrics) |-> IF i \in idx THEN value(metrics[i]) ELSE 0])

\* the largest value(row) over the rows idx, and the earliest collected_at
\* among the rows that have it
Largest(idx, value(_)) ==
    CHOOSE v \in {value(metrics[i]) : i \in idx} :
       \A i \in idx : value(metrics[i]) <= v

EarliestWith(idx, value(_), v) ==
    CHOOSE t \in {metrics[i].collected_at : i \in idx} :
       /\ \E i \in idx : value(metrics[i]) = v /\ metrics[i].collected_at = t
       /\ \A i \in idx : value(metrics[i]) = v => metrics[i].collected_at >= t

CpuOf(r) == r.cpu_percent

RamOf(r) == r.ram_percent

\* maxima and their times are as C23 states them
MaximaAndTimes(s, idx) ==
    /\ s.cpu_max = 10 * Largest(idx, CpuOf)
    /\ s.ram_max_percent = 10 * Largest(idx, RamOf)
    /\ s.cpu_max_time = EarliestWith(idx, CpuOf, Largest(idx, CpuOf))
    /\ s.ram_max_time = EarliestWith(idx, RamOf, Largest(idx, RamOf))

\* avg, in tenths, is the nearest tenth to total / n
NearestTenth(avg, total, n) ==
    /\ 2 * (avg * n - 10 * total) <= n
    /\ 2 * (10 * total - avg * n) <= n

FirstOf(idx) ==
    CHOOSE i \in idx :
       \A j \in idx : \/ metrics[i].collected_at < metrics[j].collected_at
                      \/ metrics[i].collected_at = metrics[j].collected_at /\ i <= j

LastOf(idx) ==
    CHOOSE i \in idx :
       \A j \in idx : \/ metrics[i].collected_at > metrics[j].collected_at
                      \/ metrics[i].collected_at = metrics[j].collected_at /\ i >= j

\* the growth of the two byte counters over the rows idx, clamped at 0
SentDelta(idx) ==
    LET d == metrics[LastOf(idx)].network_io.bytes_sent
               - metrics[FirstOf(idx)].network_io.bytes_sent
    IN IF d < 0 THEN 0 ELSE d

RecvDelta(idx) ==
    LET d == metrics[LastOf(idx)].network_io.bytes_recv
               - metrics[FirstOf(idx)].network_io.bytes_recv
    IN IF d < 0 THEN 0 ELSE d

\* gb, in hundredths of a GiB, is the nearest hundredth to bytes / GiB
NearestHundredth(gb, bytes) ==
    /\ 2 * (gb * GiB - 100 * bytes) <= GiB
    /\ 2 * (100 * bytes - gb * GiB) <= GiB

\* C24 as stated: network_sent_gb and network_recv_gb are the byte counter of
\* the chronologically last snapshot of the window minus that of the first,
\* as it is, 0 when that difference is negative, and never negative.
C24_NetworkIsTheDelta ==
    \A c \in ClientIds, t \in Times :
       SummaryOf(c, t) # <<>> =>
          LET s == SummaryOf(c, t)[1]
              idx == DayRows(c, t)
          IN /\ s.network_sent_gb * GiB = 100 * SentDelta(idx)
             /\ s.network_recv_gb * GiB = 100 * RecvDelta(idx)
             /\ s.network_sent_gb >= 0 /\ s.network_recv_gb >= 0

\* C24, amended: network_sent_gb and network_recv_gb are the byte counter of
\* the chronologically last snapshot of the window minus that of the first,
\* in GiB rounded to two decimals, 0 when that difference is negative, and
\* never negative.
C24_NetworkIsTheRoundedDelta ==
    \A c \in ClientIds, t \in Times :
       SummaryOf(c, t) # <<>> =>
          LET s == SummaryOf(c, t)[1]
              idx == DayRows(c, t)
          IN /\ NearestHundredth(s.network_sent_gb, SentDelta(idx))
             /\ NearestHundredth(s.network_recv_gb, RecvDelta(idx))
             /\ SentDelta(idx) = 0 => s.network_sent_gb = 0
             /\ RecvDelta(idx) = 0 => s.network_recv_gb = 0
             /\ s.network_sent_gb >= 0 /\ s.network_recv_gb >= 0

\* over one day the sent counter restarted, so that its last value is under
\* its first, while the received counter grew: the summary reports 0 sent and
\* a positive amount received
C24_Witness ==
    \E t \in Times :
       /\ SummaryOf("a", t) # <<>>
       /\ LET s == SummaryOf("a", t)[1]
              idx == DayRows("a", t)
          IN /\ metrics[LastOf(idx)].network_io.bytes_sent
                   < metrics[FirstOf(idx)].network_io.bytes_sent
             /\ s.network_sent_gb = 0
             /\ s.network_recv_gb > 0

\* the rows of idx whose temperature is flagged available and has a value
Qualifying(idx) ==
    {i \in idx : /\ metrics[i].cpu_temperature.available
                 /\ metrics[i].cpu_temperature.max_temp_celsius # <<>>}

TempOf(r) == r.cpu_temperature.max_temp_celsius[1]

\* C25: temp_avg, temp_max and temp_max_time are computed over the
\* snapshots of the window whose temperature is available and present, and
\* over no other: they are the rounded mean, the largest value and the time
\* of the earliest largest value of those snapshots, and all three are absent
\* when no snapshot of the window qualifies.
C25_TemperatureOverAvailableOnly ==
    \A c \in ClientIds, t \in Times :
       SummaryOf(c, t) # <<>> =>
          LET s == SummaryOf(c, t)[1]
              ok == Qualifying(DayRows(c, t))
          IN IF ok = {}
             THEN s.temp_avg = <<>> /\ s.temp_max = <<>> /\ s.temp_max_time = <<>>
             ELSE /\ s.temp_avg # <<>> /\ s.temp_max # <<>> /\ s.temp_max_time # <<>>
                  /\ NearestTenth(s.temp_avg[1], Total(ok, TempOf), Cardinality(ok))
                  /\ s.temp_max[1] = 10 * Largest(ok, TempOf)
                  /\ s.temp_max_time[1] = EarliestWith(ok, TempOf, Largest(ok, TempOf))

\* the partition records of the snapshot rows idx
PartitionsOf(idx) ==
    UNION {SeqToSet(metrics[i].disk_partitions) : i \in idx}

\* C26: when the snapshots of the window carry any partition, disk_max_percent
\* is the highest percent_used of all their partitions and disk_max_partition
\* is the mountpoint of a partition that has that value.
C26_DiskIsGlobalWorst ==
    \A c \in ClientIds, t \in Times :
       (SummaryOf(c, t) # <<>> /\ PartitionsOf(DayRows(c, t)) # {}) =>
          LET s == SummaryOf(c, t)[1]
              parts == PartitionsOf(DayRows(c, t))
          IN /\ \A p \in parts : 10 * p.percent_used <= s.disk_max_percent
             /\ \E p \in parts : /\ 10 * p.percent_used = s.disk_max_percent
                                 /\ p.mountpoint = s.disk_max_partition

\* C27: get_daily_summary(client_id, date) is not-found exactly when the
\* client has no row or no snapshot with collected_at in
\* [date 00:00, date+1 00:00): a snapshot at date 00:00 is inside, one at
\* date+1 00:00 outside.
C27_NotFoundIffNoClientOrEmptyWindow ==
    \A c \in ClientIds, t \in Times :
       (SummaryOf(c, t) = <<>>) <=> (ClientRows(c) = {} \/ DayRows(c, t) = {})

\* the only snapshots of client a were collected at 00:00 of the second day:
\* no summary for the first day, whose window ends there, a summary for the
\* second day, and none for the client that never reported
C27_Witness ==
    /\ metrics # <<>>
    /\ \A i \in 1..Len(metrics) :
          metrics[i].client_id = "a" /\ metrics[i].collected_at = DayTicks
    /\ ClientRows("a") # {}
    /\ SummaryOf("a", DayTicks - 1) = <<>>
    /\ SummaryOf("a", DayTicks + 1) # <<>>
    /\ SummaryOf("b", DayTicks) = <<>>

\* ------------------------------------------ the report job over two clients
\* the report job beside the clock and store_metrics calls of either client
NextReport ==
    \/ Tick
    \/ trigger_daily_report
    \/ \E m \in QuietSnapshotsAt(now) : DbStoreMetrics(m)
    \/ \E r \in Runs : ReportStep(r)

SpecReport == Init /\ [][NextReport]_vars

\* the registered clients with a snapshot collected on the day of time t
ClientsWithData(t) ==
    {c \in ClientIds : ClientRows(c) # {} /\ DayRows(c, t) # {}}

\* daily reports delivered so far, over all dates
TotalSent(sent) == Sum([i \in 1..Cardinality(Dates) |-> sent[i - 1]])

\* C28: a run that passes the dedup check goes on to one dispatch covering
\* exactly the registered clients with data for the day when there is one,
\* and back to idle without any notification when there is none; the
\* dispatch of a run is one notification, however many clients it covers,
\* and nothing else sends a daily report.
C28_AggregateStep ==
    /\ \A r \in Runs :
          /\ (Steps(r) /\ run[r].pc = "triggered" /\ ~MarkerExists(StrfDate(now)))
                => /\ reportsSent' = reportsSent
                   /\ IF ClientsWithData(now) # {}
                      THEN /\ run'[r].pc = "dispatch"
                           /\ run'[r].n = Cardinality(ClientsWithData(now))
                      ELSE /\ run'[r].pc = "idle"
                           /\ run'[r].last \in {"no_clients", "no_data"}
          /\ (Steps(r) /\ run[r].pc = "dispatch")
                => /\ run'[r].pc = "idle"
                   /\ TotalSent(reportsSent') - TotalSent(reportsSent) \in {0, 1}
                   /\ run'[r].last = "sent"
                         => TotalSent(reportsSent') = TotalSent(reportsSent) + 1
    /\ reportsSent' # reportsSent
          => \E r \in Runs : Steps(r) /\ run[r].pc = "dispatch"

C28_OneAggregateNotification == [][C28_AggregateStep]_vars

\* two clients are registered, one of them without a snapshot for the day: a
\* run sent one report covering the other client alone
C28_Witness ==
    /\ Cardinality(clients) = 2
    /\ Cardinality(ClientsWithData(now)) = 1
    /\ \E r \in Runs : run[r].pc = "idle" /\ run[r].last = "sent"
    /\ Len(daily_reports) = 1
    /\ daily_reports[1].report_date = StrfDate(now)
    /\ daily_reports[1].client_count = 1
    /\ reportsSent[StrfDate(now)] = 1

\* C30: a call of cleanup_old_data returns the number of snapshots and the
\* number of alerts that this call removed.
C30_CleanupStep ==
    \A days \in RetentionInputs :
       DbCleanupOldData(days) =>
          LET deleted_metrics == Len(metrics) - Len(metrics')
              deleted_alerts == Len(alerts) - Len(alerts')
          IN cleanup_old_data_result(deleted_metrics, deleted_alerts)
                = <<deleted_metrics, deleted_alerts>>

C30_CleanupReturnsCounts == [][C30_CleanupStep]_vars

\* --------------------------------------------------- weekly package report
\* The Database of database.py defines none of store_package_updates,
\* was_weekly_report_sent, get_all_latest_package_updates and
\* store_weekly_report, which server.py calls: the four are modelled as the
\* specification describes them, and each call may also raise.
Weeks == 0..(MaxTime \div WeekTicks)

\* now.strftime("%Y-%W"): the week, as the number of the week (server.py 217-218)
StrfWeek(t) == t \div WeekTicks

\* Database.store_package_updates: the latest package updates of the client
store_package_updates(packages, c) == packages \cup {c}

\* Database.was_weekly_report_sent(week_id)
was_weekly_report_sent(reports, week_id) == week_id \in reports

\* Database.get_all_latest_package_updates: one entry per client with data
get_all_latest_package_updates(packages) == packages

\* Database.store_weekly_report(week_id, content, client_count)
store_weekly_report(reports, week_id) == reports \cup {week_id}

\* "if not config.notifications.weekly_packages_enabled: return"
\* (server.py 212-214)
WeeklyDisabled(enabled) == ~enabled

\* variant: the job goes on with an empty list
NoPackageData_Ignored(all_updates) == FALSE

\* "if not all_updates: return" (server.py 230-232)
NoPackageData(all_updates) == all_updates = {}

\* POST /packages stores the client's package updates (server.py 447-461)
ReceivePackageUpdates(c) ==
    /\ c \notin weekly.packages
    /\ weekly' = [weekly EXCEPT !.packages = store_package_updates(@, c)]
    /\ UNCHANGED <<client, now, config, metrics, clients, alerts, daily_reports, dbLock,
                   req, run, received, ingested, reportsSent>>

\* the clock advances; the weekly_package_report job exists only when the
\* report is enabled, and its cron trigger fires at its time of the week
\* unless its previous instance still runs (server.py 326-346)
WeeklyTick ==
    /\ now < MaxTime
    /\ now' = now + 1
    /\ weekly' = IF /\ weekly.enabled
                    /\ (now + 1) % WeekTicks = weekly_report_tick % WeekTicks
                    /\ weekly.run["timer"].pc = "idle"
                 THEN [weekly EXCEPT !.run["timer"] =
                          [IdleWeeklyRun EXCEPT !.pc = "triggered"]]
                 ELSE weekly
    /\ UNCHANGED <<client, config, metrics, clients, alerts, daily_reports, dbLock,
                   req, run, received, ingested, reportsSent>>

\* POST /test/weekly-report awaits send_weekly_package_report, enabled or not
\* (server.py 489-493)
trigger_weekly_report ==
    /\ weekly.run["manual"].pc = "idle"
    /\ weekly' = [weekly EXCEPT !.run["manual"] =
                     [IdleWeeklyRun EXCEPT !.pc = "triggered"]]
    /\ UNCHANGED <<client, now, config, metrics, clients, alerts, daily_reports, dbLock,
                   req, run, received, ingested, reportsSent>>

\* send_weekly_package_report up to the notifier call: the switch, the dedup
\* check, the package data; raises: a store call raised (server.py 204-280)
SendWeeklyPackageReportStart(r, raises) ==
    /\ weekly.run[r].pc = "triggered"
    /\ raises => ~WeeklyDisabled(weekly.enabled)
    /\ LET week_id == StrfWeek(now)
           all_updates == get_all_latest_package_updates(weekly.packages)
       IN weekly' = [weekly EXCEPT !.run[r] =
            IF WeeklyDisabled(weekly.enabled)
            THEN [IdleWeeklyRun EXCEPT !.last = "disabled"]
            ELSE IF raises
            THEN [IdleWeeklyRun EXCEPT !.last = "error"]
            ELSE IF was_weekly_report_sent(weekly.reports, week_id)
            THEN [IdleWeeklyRun EXCEPT !.last = "already_sent"]
            ELSE IF NoPackageData(all_updates)
            THEN [IdleWeeklyRun EXCEPT !.last = "no_data"]
            ELSE [pc |-> "dispatch", week |-> week_id,
                  n |-> Cardinality(all_updates), last |-> None]]
    /\ UNCHANGED <<client, now, config, metrics, clients, alerts, daily_reports, dbLock,
                   req, run, received, ingested, reportsSent>>

\* send_weekly_package_report from the notifier call to its end: one
\* notification, and the marker of the week when it succeeded; raises:
\* store_weekly_report raised (server.py 282-293)
SendWeeklyPackageReportFinish(r, outcome, raises) ==
    /\ weekly.run[r].pc = "dispatch"
    /\ weekly.calls < MaxWeeklyCalls
    /\ LET success == send_notification(config.ntfy_enabled, outcome)
       IN /\ raises => success
          /\ weekly' = [weekly EXCEPT
                !.calls = @ + 1,
                !.reports = IF success /\ ~raises
                            THEN store_weekly_report(@, weekly.run[r].week)
                            ELSE @,
                !.run[r] = [IdleWeeklyRun EXCEPT
                              !.last = IF raises THEN "error"
                                       ELSE IF success THEN "sent"
                                       ELSE "failed"]]
    /\ UNCHANGED <<client, now, config, metrics, clients, alerts, daily_reports, dbLock,
                   req, run, received, ingested, reportsSent>>

WeeklyStep(r) ==
    \/ \E raises \in BOOLEAN : SendWeeklyPackageReportStart(r, raises)
    \/ \E outcome \in HttpOutcomes, raises \in BOOLEAN :
          SendWeeklyPackageReportFinish(r, outcome, raises)

\* the weekly report switched on or off
InitWeekly == InitWith({DefaultConfig}, BOOLEAN)

NextWeekly ==
    \/ WeeklyTick
    \/ trigger_weekly_report
    \/ \E c \in ClientIds : ReceivePackageUpdates(c)
    \/ \E r \in Runs : WeeklyStep(r)

SpecWeekly == InitWeekly /\ [][NextWeekly]_vars

\* run r of the weekly report takes a step
WeeklySteps(r) == weekly'.run[r] # weekly.run[r]

\* C29: a run of send_weekly_package_report, started by the timer or by the
\* manual trigger, that finds the weekly report disabled or no package
\* updates of any client ends there: it makes no notifier call and writes no
\* weekly marker.
C29_WeeklyStep ==
    \A r \in Runs :
       (WeeklySteps(r) /\ weekly.run[r].pc = "triggered"
          /\ (~weekly.enabled \/ weekly.packages = {}))
       => /\ weekly'.run[r].pc = "idle"
          /\ weekly'.calls = weekly.calls
          /\ weekly'.reports = weekly.reports
          /\ weekly'.packages = weekly.packages

C29_WeeklyNoOpWhenDisabledOrNoData == [][C29_WeeklyStep]_vars

\* with the report enabled and no package updates stored, a timer run and a
\* manual run both ended at the data check: no notifier call was made and no
\* marker exists
C29_Witness ==
    /\ weekly.enabled
    /\ weekly.packages = {}
    /\ weekly.run["timer"].pc = "idle" /\ weekly.run["timer"].last = "no_data"
    /\ weekly.run["manual"].pc = "idle" /\ weekly.run["manual"].last = "no_data"
    /\ weekly.calls = 0
    /\ weekly.reports = {}

\* --------------------------------------- properties of the alert loop
\* a notifier call was made for the alert, whatever it returned
Attempted(sent) == sent \in {"ok", "failed"}

\* the alert loop takes the alerts one at a time and in the order of the
\* list: alert i is stored when i - 1 alerts were stored and dispatched, and
\* the dispatch of alert i is over before alert i + 1 is stored
OneAtATime(q) ==
    /\ (req[q].pc = "store_alert" /\ req'[q].pc = "send_alert") =>
          /\ req[q].saved = req[q].i - 1
          /\ Len(req[q].sends) = req[q].i - 1
          /\ req'[q].i = req[q].i
          /\ alerts' = Append(alerts, AlertRow(req[q].alerts[req[q].saved + 1]))
    /\ (req[q].pc = "send_alert" /\ req'[q].pc # "send_alert") =>
          /\ req[q].saved = req[q].i
          /\ Len(req[q].sends) = req[q].i - 1
          /\ Len(req'[q].sends) = req[q].i
          /\ IF req[q].i < Len(req[q].alerts)
             THEN req'[q].pc = "store_alert" /\ req'[q].i = req[q].i + 1
             ELSE req'[q].pc = "responded"

\* C31 as stated: the alerts of a request are handled one at a time in the
\* order check_thresholds returned them, and for every alert of the list
\* exactly one notification is attempted.
C31_EveryAlertStep ==
    \A q \in Reqs :
       /\ OneAtATime(q)
       /\ (req[q].pc = "send_alert" /\ req'[q].pc # "send_alert") =>
             Attempted(Last(req'[q].sends))
       /\ (req'[q].pc = "responded" /\ req'[q].stored) =>
             Len(req'[q].sends) = Len(req'[q].alerts)

C31_OneNotificationPerAlert == [][C31_EveryAlertStep]_vars

\* C31, amended: the alerts of a request are handled one at a time in the
\* order check_thresholds returned them; with send_immediate_alerts on,
\* exactly one notification is attempted for every alert that was stored, and
\* with it off none is; the alerts after one whose store raised are neither
\* stored nor notified.
C31_StoredAlertStep ==
    \A q \in Reqs :
       /\ OneAtATime(q)
       /\ (req[q].pc = "send_alert" /\ req'[q].pc # "send_alert") =>
             (Attempted(Last(req'[q].sends)) <=> config.send_immediate_alerts)
       /\ (req'[q].pc = "responded" /\ req'[q].stored) =>
             /\ Len(req'[q].sends) = req'[q].saved
             /\ req'[q].status = "ok" => req'[q].saved = Len(req'[q].alerts)
             /\ req'[q].status = "error" => req'[q].saved < Len(req'[q].alerts)

C31_OneNotificationPerStoredAlert == [][C31_StoredAlertStep]_vars

\* with immediate alerts on, a request stored and dispatched its two alerts
\* in turn while the other request was inside its own alert loop
C31_Witness ==
    \E q, p \in Reqs :
       /\ q # p /\ config.send_immediate_alerts
       /\ req[q].pc = "responded" /\ req[q].status = "ok"
       /\ Len(req[q].alerts) = 2 /\ req[q].saved = 2 /\ Len(req[q].sends) = 2
       /\ \A i \in 1..2 : Attempted(req[q].sends[i])
       /\ req[p].pc = "send_alert" /\ req[p].i = 1


\* the alert rows of request q's alerts are in the alerts table
AlertsStored(q) ==
    \A i \in 1..Len(req[q].alerts) :
       \E j \in 1..Len(alerts) : alerts[j] = AlertRow(req[q].alerts[i])

\* C39: with send_immediate_alerts false no notifier call is made for any
\* alert, and a request that ran its alert loop to the end has stored every
\* alert check_thresholds returned.
C39_AlertsStoredNotSent ==
    ~config.send_immediate_alerts =>
       \A q \in Reqs :
          /\ \A i \in 1..Len(req[q].sends) : ~Attempted(req[q].sends[i])
          /\ (req[q].pc = "responded" /\ req[q].status = "ok") =>
                /\ req[q].saved = Len(req[q].alerts)
                /\ Len(req[q].sends) = Len(req[q].alerts)
                /\ AlertsStored(q)

\* with immediate alerts off, a request stored its two alerts and answered
\* without a notifier call
C39_Witness ==
    /\ ~config.send_immediate_alerts
    /\ \E q \in Reqs :
          /\ req[q].pc = "responded" /\ req[q].status = "ok"
          /\ Len(req[q].alerts) = 2 /\ req[q].saved = 2
          /\ req[q].sends = <<"skipped", "skipped">>
          /\ AlertsStored(q)


\* ------------------------------------------- the handler's progress
\* The event loop runs a handler that is ready: after store_metrics, the
\* threshold check and each db.store_alert either return or raise. A
\* notification call that gets no answer is ended by the client's timeout of
\* 30 s (notifier.py 24, 75-78); nothing is assumed about the notifier ever
\* answering.
HandlerProgress(q) ==
    /\ WF_vars(CheckThresholds(q) \/ StoreAlert(q) \/ StoreAlertFail(q))
    /\ WF_vars(SendImmediateAlert(q, "timeout"))

\* the requests of one client whose clock agrees with the server's
LiveInputs == {SystemMetrics("a", 0, p) : p \in Profiles}

NextIngestLive ==
    \E q \in Reqs : StoreStep(q, LiveInputs, MaxRequests) \/ AlertStep(q)

SpecIngestLive ==
    InitIngest /\ [][NextIngestLive]_vars /\ \A q \in Reqs : HandlerProgress(q)

\* the dispatch of an alert returns to the loop without an error
DispatchNeverRaises(q) ==
    (req[q].pc = "send_alert" /\ req'[q] # req[q]) =>
       /\ req'[q].status # "error"
       /\ Len(req'[q].sends) = Len(req[q].sends) + 1

\* C32: every request whose snapshot was stored eventually returns its
\* response, also when no notification call is ever answered: the call ends
\* as a failed call and the failure does not reach the caller.
C32_StoredRequestResponds ==
    /\ \A q \in Reqs :
          (req[q].stored /\ req[q].pc # "responded") ~> (req[q].pc = "responded")
    /\ [][\A q \in Reqs : DispatchNeverRaises(q)]_vars

\* a request answered ok although both of its notification calls failed
C32_Witness ==
    \E q \in Reqs :
       /\ req[q].stored /\ req[q].pc = "responded" /\ req[q].status = "ok"
       /\ config.send_immediate_alerts
       /\ req[q].sends = <<"failed", "failed">>


\* ------------------------------- the report job, notifier enabled or not
\* ntfy.enabled is a setting of the deployment (config.py, notifier.py 17)
ReportConfigs == {c \in Configs : c.send_immediate_alerts}

InitNotifier == InitWith(ReportConfigs, {TRUE})

SpecNotifier == InitNotifier /\ [][Next]_vars

\* the step writes the marker of day d
WritesMarker(d) == MarkerIn(daily_reports', d) /\ ~MarkerExists(d)

\* C33: a marker of a date is written only by the finishing step of a run for
\* that date whose send_notification call returned success (with the notifier
\* enabled: the report was delivered in that step), so in every state a
\* marker's date has had a successful call.
C33_MarkerStep ==
    \A d \in Dates :
       WritesMarker(d) =>
          \E r \in Runs, outcome \in HttpOutcomes :
             /\ Steps(r) /\ run[r].pc = "dispatch" /\ run'[r].pc = "idle"
             /\ StrfDate(run[r].yesterday) = d
             /\ run'[r].last \in {"sent", "error"}
             /\ send_notification(config.ntfy_enabled, outcome)
             /\ Delivered(config.ntfy_enabled, outcome)
                   <=> reportsSent'[d] = reportsSent[d] + 1

C33_MarkerOnlyAfterSuccess ==
    /\ [](\A d \in Dates :
            (MarkerExists(d) /\ config.ntfy_enabled) => reportsSent[d] >= 1)
    /\ [][C33_MarkerStep]_vars

\* a dispatch for the date failed and left no marker; a later one succeeded
\* and its run wrote the marker
C33_Witness ==
    \E d \in Dates :
       /\ config.ntfy_enabled /\ now \div DayTicks = d
       /\ MarkerExists(d) /\ reportsSent[d] = 1
       /\ run["timer"].pc = "idle" /\ run["timer"].last = "failed"
       /\ run["manual"].pc = "idle" /\ run["manual"].last = "sent"

\* C34: with the notifier disabled no report is ever delivered, yet a run
\* that reaches the dispatch gets success from send_notification: it never
\* ends as failed, it ends as sent with the marker of its date written, and a
\* later trigger for that date ends at the dedup check.
C34_DisabledStep ==
    ~config.ntfy_enabled =>
       /\ reportsSent' = reportsSent
       /\ \A r \in Runs :
             /\ (Steps(r) /\ run[r].pc = "dispatch")
                   => /\ run'[r].last \in {"sent", "error"}
                      /\ run'[r].last = "sent"
                            => /\ daily_reports' # daily_reports
                               /\ MarkerIn(daily_reports', StrfDate(run[r].yesterday))
             /\ (Steps(r) /\ run[r].pc = "triggered" /\ MarkerExists(StrfDate(now)))
                   => run'[r].pc = "idle" /\ run'[r].last = "already_sent"

C34_DisabledNotifierStillMarks ==
    /\ [](~config.ntfy_enabled => \A d \in Dates : reportsSent[d] = 0)
    /\ [][C34_DisabledStep]_vars

\* with the notifier disabled a run recorded the marker of the day without a
\* delivery, and the next trigger for the day was suppressed
C34_Witness ==
    \E d \in Dates :
       /\ ~config.ntfy_enabled /\ now \div DayTicks = d
       /\ MarkerExists(d) /\ reportsSent[d] = 0
       /\ run["timer"].pc = "idle" /\ run["timer"].last = "sent"
       /\ run["manual"].pc = "idle" /\ run["manual"].last = "already_sent"


\* --------------------------------- early returns, pruning, the report's day
\* run r ends at one of the early returns for want of clients or of data
EndsEmpty(r) ==
    /\ Steps(r) /\ run[r].pc = "triggered"
    /\ run'[r].last \in {"no_clients", "no_data"}

\* C35: a run that ends early because no client is registered or no client
\* has data for the day writes nothing, so no marker of the day exists after
\* it; and a trigger that finds no marker of its day and data for it goes on
\* to the dispatch.
C35_EmptyRunStep ==
    \A r \in Runs :
       /\ EndsEmpty(r) => /\ daily_reports' = daily_reports
                          /\ ~MarkerIn(daily_reports', StrfDate(now))
                          /\ run'[r].pc = "idle"
       /\ (Steps(r) /\ run[r].pc = "triggered" /\ ~MarkerExists(StrfDate(now))
             /\ ClientsWithData(now) # {})
            => run'[r].pc = "dispatch"

C35_EmptyRunWritesNoMarker == [][C35_EmptyRunStep]_vars

\* the timer's run of the second day found clients without data for the day
\* and ended; a snapshot came in and the manual run of the same day sent the
\* report
C35_Witness ==
    /\ now = MaxTime /\ ClientsWithData(now) # {}
    /\ run["timer"].pc = "idle" /\ run["timer"].last = "no_data"
    /\ run["manual"].pc = "idle" /\ run["manual"].last = "sent"
    /\ MarkerExists(StrfDate(now)) /\ reportsSent[StrfDate(now)] = 1


\* the rows not older than the retention period at the time of the step
Retained(rows, IsMetric) ==
    SelectSeq(rows, LAMBDA row :
        (IF IsMetric THEN row.collected_at ELSE row.recorded_at)
           >= now - retention_days * DayTicks)

\* the step removes a snapshot or an alert
RemovesRows ==
    \/ \E i \in 1..Len(metrics) : metrics[i] \notin SeqToSet(metrics')
    \/ \E i \in 1..Len(alerts) : alerts[i] \notin SeqToSet(alerts')

\* C36: rows are removed only by the finishing step of a run that reached
\* the dispatch; such a run, whether its dispatch succeeded or failed, ends
\* with the tables pruned to the retention period; a run that returns at the
\* dedup check or for want of clients or data leaves the tables as they are.
C36_PruneStep ==
    /\ RemovesRows => \E r \in Runs : Steps(r) /\ run[r].pc = "dispatch"
    /\ \A r \in Runs :
          /\ (Steps(r) /\ run[r].pc = "dispatch"
                /\ run'[r].last \in {"sent", "failed"})
               => /\ metrics' = Retained(metrics, TRUE)
                  /\ alerts' = Retained(alerts, FALSE)
          /\ (Steps(r) /\ run[r].pc = "triggered")
               => /\ metrics' = metrics /\ alerts' = alerts
                  /\ clients' = clients

C36_PruningOnlyAfterDispatch == [][C36_PruneStep]_vars

\* only the timer's runs have finished, the last with a failed dispatch, and
\* the first day's snapshot is gone from the store
C36_Witness ==
    /\ run["timer"].pc = "idle" /\ run["timer"].last = "failed"
    /\ run["manual"].last = None
    /\ \A d \in Dates : ~MarkerExists(d)
    /\ received = 2 /\ Len(metrics) = 1
    /\ metrics[1].collected_at >= now - retention_days * DayTicks


\* the calendar day of time t, and its first tick
DayOf(t) == t \div DayTicks

DayStart(t) == DayOf(t) * DayTicks

\* the registered clients with a snapshot collected on the calendar day of t
CollectedOnDayOf(t) ==
    {c \in ClientIds :
        /\ \E row \in clients : row.client_id = c
        /\ \E i \in 1..Len(metrics) :
              /\ metrics[i].client_id = c
              /\ DayOf(metrics[i].collected_at) = DayOf(t)}

\* C38: a run started at time t is suppressed exactly when a marker of the
\* calendar day of t exists; otherwise it reports the clients with a snapshot
\* collected on that same day, from its midnight on, and no others, and
\* dispatches nothing when there is none, whatever was collected the day
\* before; the marker it writes is that of the same day.
C38_RunStep ==
    \A r \in Runs :
       /\ (Steps(r) /\ run[r].pc = "triggered") =>
             /\ run'[r].last = "already_sent"
                   <=> \E i \in 1..Len(daily_reports) :
                          daily_reports[i].report_date = DayOf(now)
             /\ run'[r].pc = "dispatch"
                   => /\ run'[r].yesterday = DayStart(now)
                      /\ run'[r].n = Cardinality(CollectedOnDayOf(now))
             /\ CollectedOnDayOf(now) = {} => run'[r].pc = "idle"
       /\ (Steps(r) /\ run[r].pc = "dispatch" /\ daily_reports' # daily_reports) =>
             /\ Len(daily_reports') = Len(daily_reports) + 1
             /\ Last(daily_reports').report_date = DayOf(run[r].yesterday)
             /\ Last(daily_reports').client_count = run[r].n

C38_ReportCoversTheDayOfTheRun == [][C38_RunStep]_vars

\* one client's only snapshot is of the first day, the other's of the second:
\* the report sent on the second day is recorded under the second day and
\* covers the second client alone
C38_Witness ==
    /\ DayOf(now) = 1
    /\ \E c, d \in ClientIds :
          /\ c # d /\ Len(metrics) = 2
          /\ metrics[1].client_id = c /\ DayOf(metrics[1].collected_at) = 0
          /\ metrics[2].client_id = d /\ DayOf(metrics[2].collected_at) = 1
    /\ daily_reports = <<[report_date |-> 1, client_count |-> 1]>>
    /\ reportsSent = [d \in Dates |-> IF d = 1 THEN 1 ELSE 0]


\* --------------------------------------------------- the snapshot counter
\* C37: no step lowers a client's metrics_count; a store_metrics call for the
\* client raises it by exactly one and every other step, cleanup_old_data
\* among them, leaves it as it is, so it is the number of the client's
\* snapshots ever stored and never less than the number of rows still there.
C37_CounterStep ==
    \A c \in ClientIds :
       /\ MetricsCountIn(clients', c) >= MetricsCount(c)
       /\ MetricsCountIn(clients', c) =
             IF ingested'[c] = ingested[c] + 1
             THEN MetricsCount(c) + 1 ELSE MetricsCount(c)
       /\ (Len(metrics') < Len(metrics) \/ Len(alerts') < Len(alerts))
             => ClientRowsIn(clients', c) = ClientRows(c)

C37_MetricsCountNeverDecreases ==
    /\ [](\A c \in ClientIds :
            MetricsCount(c) = ingested[c] /\ RowsOf(c) <= MetricsCount(c))
    /\ [][C37_CounterStep]_vars

\* both snapshots of a client were pruned and its counter still says two,
\* while the other client's counter was never touched
C37_Witness ==
    \E c, d \in ClientIds :
       /\ c # d /\ MetricsCount(c) = 2 /\ RowsOf(c) = 0
       /\ MetricsCount(d) = 0 /\ alerts # <<>>


\* ------------------------------------------------ the client's push loop
MaxPushes == 4       \* send_metrics calls of one run()
IntervalTicks == 1   \* client.collect_interval_minutes, in ticks
PackageTicks == 2    \* PACKAGE_UPDATE_INTERVAL_HOURS, in ticks
MaxCallTicks == 1    \* the longest an http call of the client takes

CallTicks == 0..MaxCallTicks

\* MetricsClient._should_check_packages (client.py 110-116)
_should_check_packages(last_check) ==
    last_check = <<>> \/ last_check[1] >= PackageTicks

\* the age of _last_package_check after dt more ticks; all that is ever asked
\* of it is whether it has reached the package interval
Aged(last_check, dt) ==
    IF last_check = <<>> THEN <<>>
    ELSE <<IF last_check[1] + dt >= PackageTicks THEN PackageTicks
           ELSE last_check[1] + dt>>

\* "if await self.send_package_updates(): self._last_package_check = utcnow()"
\* (client.py 147-148, 158-160)
Checked(last_check, ok) == IF ok THEN <<0>> ELSE last_check

\* the test of "while self._running:" and, after the loop, the cleanup
\* (client.py 151, 164-166)
LoopHead(c) ==
    [c EXCEPT !.pc = IF c.running THEN "sleep"
                     ELSE IF c.http THEN "closing" ELSE "done"]

\* run() up to its first await: _running = True, then check_server_health
\* creates the http client and sends the GET (client.py 127-139, 118-125)
ClientRun ==
    /\ client.pc = "new"
    /\ client' = [client EXCEPT !.pc = "health", !.running = TRUE, !.http = TRUE]
    /\ UNCHANGED <<now, config, metrics, clients, alerts, daily_reports, dbLock,
                   req, run, received, ingested, reportsSent, weekly>>

\* the health check returns, reachable or not; the initial send_metrics
\* starts (client.py 139-145)
ClientHealthChecked ==
    /\ client.pc = "health"
    /\ client' = [client EXCEPT !.pc = "initial_metrics", !.pushes = @ + 1]
    /\ UNCHANGED <<now, config, metrics, clients, alerts, daily_reports, dbLock,
                   req, run, received, ingested, reportsSent, weekly>>

\* the initial send_metrics returns, its result unused; the initial
\* send_package_updates starts (client.py 145-147)
ClientInitialMetricsSent ==
    /\ client.pc = "initial_metrics"
    /\ client' = [client EXCEPT !.pc = "initial_packages"]
    /\ UNCHANGED <<now, config, metrics, clients, alerts, daily_reports, dbLock,
                   req, run, received, ingested, reportsSent, weekly>>

\* the initial send_package_updates returns; the main loop is entered
\* (client.py 147-151)
ClientInitialPackagesSent(ok) ==
    /\ client.pc = "initial_packages"
    /\ client' = LoopHead([client EXCEPT !.last_check = Checked(@, ok)])
    /\ UNCHANGED <<now, config, metrics, clients, alerts, daily_reports, dbLock,
                   req, run, received, ingested, reportsSent, weekly>>

\* asyncio.sleep(interval_seconds) returns: "if self._running:" send_metrics
\* starts, else back to the loop's test (client.py 153-155)
ClientSleepEnds ==
    /\ client.pc = "sleep"
    /\ client.running => client.pushes < MaxPushes
    /\ LET c == [client EXCEPT !.last_check = Aged(@, IntervalTicks)]
       IN client' =
            IF client.running
            THEN [c EXCEPT !.pc = "send_metrics", !.pushes = @ + 1,
                           !.late = IF c.stopped THEN @ \cup {"send_metrics"}
                                    ELSE @]
            ELSE LoopHead(c)
    /\ UNCHANGED <<now, config, metrics, clients, alerts, daily_reports, dbLock,
                   req, run, received, ingested, reportsSent, weekly>>

\* the loop's send_metrics returns after dt ticks; when a package check is due
\* send_package_updates starts, else back to the loop's test
\* (client.py 155-159)
ClientMetricsSent(dt) ==
    /\ client.pc = "send_metrics"
    /\ LET c == [client EXCEPT !.last_check = Aged(@, dt)]
       IN client' =
            IF _should_check_packages(c.last_check)
            THEN [c EXCEPT !.pc = "send_packages",
                           !.late = IF c.stopped
                                    THEN @ \cup {"send_package_updates"}
                                    ELSE @]
            ELSE LoopHead(c)
    /\ UNCHANGED <<now, config, metrics, clients, alerts, daily_reports, dbLock,
                   req, run, received, ingested, reportsSent, weekly>>

\* the loop's send_package_updates returns (client.py 159-160)
ClientPackagesSent(ok) ==
    /\ client.pc = "send_packages"
    /\ client' = LoopHead([client EXCEPT !.last_check = Checked(@, ok)])
    /\ UNCHANGED <<now, config, metrics, clients, alerts, daily_reports, dbLock,
                   req, run, received, ingested, reportsSent, weekly>>

\* the http client is closed and run() returns (client.py 164-168)
ClientClosed ==
    /\ client.pc = "closing"
    /\ client' = [client EXCEPT !.pc = "done", !.http = FALSE]
    /\ UNCHANGED <<now, config, metrics, clients, alerts, daily_reports, dbLock,
                   req, run, received, ingested, reportsSent, weekly>>

\* run() is in its main loop: asleep or inside one of the loop's sends
InMainLoop(c) == c.pc \in {"sleep", "send_metrics", "send_packages"}

\* MetricsClient.stop(), run by the event loop's signal handler while run()
\* is suspended in one of its awaits (client.py 170-172, 178-190)
ClientStop ==
    /\ client.running
    /\ client' = [client EXCEPT !.running = FALSE,
                                !.stopped = @ \/ InMainLoop(client)]
    /\ UNCHANGED <<now, config, metrics, clients, alerts, daily_reports, dbLock,
                   req, run, received, ingested, reportsSent, weekly>>

\* a step of run()
ClientStep ==
    \/ ClientRun
    \/ ClientHealthChecked
    \/ ClientInitialMetricsSent
    \/ \E ok \in BOOLEAN : ClientInitialPackagesSent(ok)
    \/ ClientSleepEnds
    \/ \E dt \in CallTicks : ClientMetricsSent(dt)
    \/ \E ok \in BOOLEAN : ClientPackagesSent(ok)
    \/ ClientClosed

NextClient == ClientStep \/ ClientStop

\* every await of run() returns: the sleep after its interval, the http calls
\* by their timeouts of 5, 30 and 120 s (client.py 36, 91, 122)
SpecClient == Init /\ [][NextClient]_vars /\ WF_vars(ClientStep)

\* once stop() was called in the main loop, run() comes to its end
RunTerminates == client.stopped ~> client.pc = "done"

\* C40: after stop() was called while the main loop was running no
\* send_metrics and no send_package_updates call starts any more, and run()
\* comes to its end.
C40_NoSendAfterStop ==
    /\ [](client.late = {})
    /\ client.stopped ~> client.pc = "done"

====
